---- MODULE Spec2Model ----
(***************************************************************************)
(* Lifting diary: the relational store (workouts, exercises,               *)
(* workout_exercises, sets), the data-access layer of src/data and the     *)
(* server actions that validate, authenticate and delegate to it.          *)
(*                                                                         *)
(* Conventions.  An optional value (a JS value or undefined, a nullable    *)
(* column, the first element of a .returning() array) is a set with at     *)
(* most one element.  A uuid is a positive integer; the integer 0 stands   *)
(* for a string that is not a uuid.  A Date is its number of milliseconds  *)
(* of local time since the local midnight that starts day 0; -1 is the     *)
(* Invalid Date.  A weight given to an action is counted in thousandths,   *)
(* a stored weight (numeric(10, 2)) in hundredths.  Of the columns the     *)
(* store maintains, workouts.created_at is modelled, being the one the     *)
(* code reads; completed_at, updated_at and the other tables' created_at   *)
(* are never read and are left out.                                        *)
(***************************************************************************)
EXTENDS Integers, Sequences, FiniteSets, TLC

\* ------------------------------------------------------------------ bounds
\* number of rows inserted in one run (all tables together), and the number
\* of uuids each table generates
MaxInserts == 5
MaxWorkouts == 2
MaxExercises == 1
MaxWorkoutExercises == 3
MaxSets == 3

\* ------------------------------------------------------ values of the model
Users == {"u1", "u2"}
NoUser == "null"

DayMs == 86400000
Day0Noon == DayMs \div 2
Day1Noon == DayMs + Day0Noon
InvalidDate == 0 - 1

LongName == "0123456789012345678901234567890123456789012345678901234567890123456789012345678901234567890123456789X"
NameInputs == {"", "A", "B", LongName}
StartedAtInputs == {Day0Noon, Day1Noon, InvalidDate}
DateInputs == {Day0Noon, Day1Noon}
RepsInputs == { {}, {5}, {1000} }
WeightInputs == { {}, {0}, {2500}, {10000000} }

VARIABLES
  workouts, exercises, workoutExercises, sets,  \* the four tables
  nextId,     \* per table, the number of the next uuid defaultRandom() gives
  now,        \* the clock defaultNow() reads for workouts.created_at
  inserted,   \* rows inserted so far
  everSet,    \* history: every set ever inserted, with the number it got
  dateString, \* the string last given to parseLocalDate
  parsedDate, \* the Date it returned
  formatted,  \* what formatLocalDate made of that Date, once it has
  display,    \* what formatDate made of that Date, once it has
  routed,     \* the page request last routed, and what became of it
  inFlight    \* the data-access calls under way, statement by statement

dateVars == <<dateString, parsedDate, formatted, display, routed>>

vars == <<workouts, exercises, workoutExercises, sets,
          nextId, now, inserted, everSet, dateString, parsedDate,
          formatted, display, routed, inFlight>>

\* the requests served at the same time, and a request with no call under way
Procs == {"p1", "p2"}
Idle == [op |-> "none", pc |-> "idle", userId |-> NoUser, target |-> 0,
         exerciseId |-> 0, read |-> 0, error |-> ""]

\* the store as one value, so that an operation is a function of the store
Db == [workouts |-> workouts, exercises |-> exercises,
       workoutExercises |-> workoutExercises, sets |-> sets]

EmptyDb == [workouts |-> {}, exercises |-> {}, workoutExercises |-> {}, sets |-> {}]

\* -------------------------------------------------------- query primitives
\* orderBy asc(column) / desc(column) of a result set
OrderByAsc(S, column) ==
  LET sorted[T \in SUBSET S] ==
        IF T = {} THEN <<>>
        ELSE LET m == CHOOSE x \in T : \A y \in T : x[column] <= y[column]
             IN  <<m>> \o sorted[T \ {m}]
  IN  sorted[S]

OrderByDesc(S, column) ==
  LET sorted[T \in SUBSET S] ==
        IF T = {} THEN <<>>
        ELSE LET m == CHOOSE x \in T : \A y \in T : x[column] >= y[column]
             IN  <<m>> \o sorted[T \ {m}]
  IN  sorted[S]

\* findFirst / result[0]: the first row of a result, or undefined
First(s) == IF s = <<>> THEN {} ELSE {s[1]}

Range(s) == {s[i] : i \in DOMAIN s}

\* result of a data-access function: it returned value, or threw error
Returned(db, v) == [db |-> db, threw |-> FALSE, error |-> "", value |-> v]
Threw(db, msg) == [db |-> db, threw |-> TRUE, error |-> msg, value |-> {}]

\* mutant: the sets by desc(sets.setNumber)
WithSets_Descending(db, we) ==
  [id |-> we.id, workoutId |-> we.workoutId, exerciseId |-> we.exerciseId,
   order |-> we.order,
   exercise |-> {e \in db.exercises : e.id = we.exerciseId},
   sets |-> OrderByDesc({s \in db.sets : s.workoutExerciseId = we.id}, "setNumber")]

\* the `with` clause of the three workout queries
WithSets(db, we) ==
  [id |-> we.id, workoutId |-> we.workoutId, exerciseId |-> we.exerciseId,
   order |-> we.order,
   exercise |-> {e \in db.exercises : e.id = we.exerciseId},
   sets |-> OrderByAsc({s \in db.sets : s.workoutExerciseId = we.id}, "setNumber")]

WithWorkoutExercises(db, w) ==
  [id |-> w.id, userId |-> w.userId, name |-> w.name,
   startedAt |-> w.startedAt, createdAt |-> w.createdAt,
   workoutExercises |->
     OrderByAsc({WithSets(db, we) :
                   we \in {x \in db.workoutExercises : x.workoutId = w.id}},
                "order")]

\* the value of a defined optional
Elem(o) == CHOOSE x \in o : TRUE

\* the Date with setHours(0, 0, 0, 0) / setHours(23, 59, 59, 999) applied
StartOfDay(date) == (date \div DayMs) * DayMs
EndOfDay(date) == StartOfDay(date) + (DayMs - 1)

\* (n).toString() stored in a numeric(10, 2) column: thousandths rounded to
\* hundredths
ToNumeric(w) == (w + 5) \div 10

\* errors of the store and of the query builder
FkViolation == "violates foreign key constraint"
NoValuesToSet == "No values to set"

\* ------------------------------------------------------ data-access layer
\* src/data/workouts.ts; userId of the three reads is what auth() returned
getUserWorkouts(db, userId) ==
  IF userId = NoUser THEN Threw(db, "Unauthorized")
  ELSE Returned(db,
         OrderByDesc({WithWorkoutExercises(db, w) :
                        w \in {x \in db.workouts : x.userId = userId}},
                     "createdAt"))

getUserWorkoutsByDate(db, userId, date) ==
  IF userId = NoUser THEN Threw(db, "Unauthorized")
  ELSE Returned(db,
         OrderByDesc({WithWorkoutExercises(db, w) :
                        w \in {x \in db.workouts :
                                 /\ x.userId = userId
                                 /\ x.startedAt >= StartOfDay(date)
                                 /\ x.startedAt < EndOfDay(date)}},
                     "startedAt"))

\* mutant: the where clause without eq(workouts.userId, userId)
getUserWorkoutById_AnyOwner(db, userId, workoutId) ==
  IF userId = NoUser THEN Threw(db, "Unauthorized")
  ELSE Returned(db,
         {WithWorkoutExercises(db, w) :
            w \in {x \in db.workouts : x.id = workoutId}})

getUserWorkoutById(db, userId, workoutId) ==
  IF userId = NoUser THEN Threw(db, "Unauthorized")
  ELSE Returned(db,
         {WithWorkoutExercises(db, w) :
            w \in {x \in db.workouts : x.id = workoutId /\ x.userId = userId}})

\* mutant: the start timestamp cut to the start of its day
createWorkoutForUser_StartOfDay(db, userId, data, id, ts) ==
  LET row == [id |-> id, userId |-> userId, name |-> data.name,
              startedAt |-> StartOfDay(data.startedAt), createdAt |-> ts]
  IN  Returned([db EXCEPT !.workouts = @ \cup {row}], {row})

createWorkoutForUser(db, userId, data, id, ts) ==
  LET row == [id |-> id, userId |-> userId, name |-> data.name,
              startedAt |-> data.startedAt, createdAt |-> ts]
  IN  Returned([db EXCEPT !.workouts = @ \cup {row}], {row})

\* mutant: an update by id alone that writes the caller as the owner
updateWorkoutForUser_TakesOver(db, userId, workoutId, data) ==
  LET hit == {w \in db.workouts : w.id = workoutId}
      upd(w) == [w EXCEPT
                   !.userId = userId,
                   !.name = IF data.name = {} THEN @ ELSE Elem(data.name),
                   !.startedAt = IF data.startedAt = {} THEN @
                                 ELSE Elem(data.startedAt)]
  IN  Returned([db EXCEPT !.workouts = (@ \ hit) \cup {upd(w) : w \in hit}],
               {upd(w) : w \in hit})

updateWorkoutForUser(db, userId, workoutId, data) ==
  LET hit == {w \in db.workouts : w.id = workoutId /\ w.userId = userId}
      upd(w) == [w EXCEPT
                   !.name = IF data.name = {} THEN @ ELSE Elem(data.name),
                   !.startedAt = IF data.startedAt = {} THEN @
                                 ELSE Elem(data.startedAt)]
  IN  Returned([db EXCEPT !.workouts = (@ \ hit) \cup {upd(w) : w \in hit}],
               {upd(w) : w \in hit})

\* mutant: the order from the count of the rows, not from their maximum
addExerciseToWorkout_CountAsOrder(db, userId, workoutId, exerciseId, id) ==
  LET workout == {w \in db.workouts : w.id = workoutId /\ w.userId = userId}
      existingExercises ==
        {we \in db.workoutExercises : we.workoutId = workoutId}
      row == [id |-> id, workoutId |-> workoutId, exerciseId |-> exerciseId,
              order |-> Cardinality(existingExercises)]
  IN  IF workout = {} THEN Threw(db, "Workout not found or unauthorized")
      ELSE IF \A e \in db.exercises : e.id # exerciseId
             THEN Threw(db, FkViolation)
      ELSE Returned([db EXCEPT !.workoutExercises = @ \cup {row}], {row})

\* mutant: every row at the first position
addExerciseToWorkout_AlwaysFirst(db, userId, workoutId, exerciseId, id) ==
  LET workout == {w \in db.workouts : w.id = workoutId /\ w.userId = userId}
      row == [id |-> id, workoutId |-> workoutId, exerciseId |-> exerciseId,
              order |-> 0]
  IN  IF workout = {} THEN Threw(db, "Workout not found or unauthorized")
      ELSE IF \A e \in db.exercises : e.id # exerciseId
             THEN Threw(db, FkViolation)
      ELSE Returned([db EXCEPT !.workoutExercises = @ \cup {row}], {row})

addExerciseToWorkout(db, userId, workoutId, exerciseId, id) ==
  LET workout == {w \in db.workouts : w.id = workoutId /\ w.userId = userId}
      existingExercises ==
        OrderByDesc({we \in db.workoutExercises : we.workoutId = workoutId},
                    "order")
      maxOrder == IF existingExercises = <<>> THEN -1
                  ELSE existingExercises[1].order
      row == [id |-> id, workoutId |-> workoutId, exerciseId |-> exerciseId,
              order |-> maxOrder + 1]
  IN  IF workout = {} THEN Threw(db, "Workout not found or unauthorized")
      ELSE IF \A e \in db.exercises : e.id # exerciseId
             THEN Threw(db, FkViolation)
      ELSE Returned([db EXCEPT !.workoutExercises = @ \cup {row}], {row})

\* the owner a workout-exercise resolves to through its workout
OwnerOfWorkoutExercise(db, we) ==
  {w.userId : w \in {x \in db.workouts : x.id = we.workoutId}}

\* mutant: one message for a missing row, another for a row of someone else
removeExerciseFromWorkout_TwoMessages(db, userId, workoutExerciseId) ==
  LET workoutExercise ==
        {we \in db.workoutExercises : we.id = workoutExerciseId}
  IN  IF workoutExercise = {} THEN Threw(db, "Workout exercise not found")
      ELSE IF OwnerOfWorkoutExercise(db, Elem(workoutExercise)) # {userId}
        THEN Threw(db, "Unauthorized")
      ELSE Returned(
             [db EXCEPT
                !.workoutExercises = @ \ workoutExercise,
                !.sets = {s \in @ : s.workoutExerciseId # workoutExerciseId}],
             {})

\* mutant: a schema whose sets do not go with their workout-exercise
removeExerciseFromWorkout_NoCascade(db, userId, workoutExerciseId) ==
  LET workoutExercise ==
        {we \in db.workoutExercises : we.id = workoutExerciseId}
  IN  IF \/ workoutExercise = {}
         \/ OwnerOfWorkoutExercise(db, Elem(workoutExercise)) # {userId}
        THEN Threw(db, "Workout exercise not found or unauthorized")
      ELSE Returned([db EXCEPT !.workoutExercises = @ \ workoutExercise], {})

removeExerciseFromWorkout(db, userId, workoutExerciseId) ==
  LET workoutExercise ==
        {we \in db.workoutExercises : we.id = workoutExerciseId}
  IN  IF \/ workoutExercise = {}
         \/ OwnerOfWorkoutExercise(db, Elem(workoutExercise)) # {userId}
        THEN Threw(db, "Workout exercise not found or unauthorized")
      ELSE Returned(
             [db EXCEPT
                !.workoutExercises = @ \ workoutExercise,
                !.sets = {s \in @ : s.workoutExerciseId # workoutExerciseId}],
             {})

\* mutant: the next number from the count of the sets, not from their maximum
addSetToWorkoutExercise_CountPlusOne(db, userId, workoutExerciseId, data, id) ==
  LET workoutExercise ==
        {we \in db.workoutExercises : we.id = workoutExerciseId}
      existingSets == {s \in db.sets : s.workoutExerciseId = workoutExerciseId}
      row == [id |-> id, workoutExerciseId |-> workoutExerciseId,
              setNumber |-> Cardinality(existingSets) + 1,
              reps |-> data.reps,
              weight |-> IF data.weight # {} /\ Elem(data.weight) # 0
                           THEN {ToNumeric(Elem(data.weight))} ELSE {}]
  IN  IF \/ workoutExercise = {}
         \/ OwnerOfWorkoutExercise(db, Elem(workoutExercise)) # {userId}
        THEN Threw(db, "Workout exercise not found or unauthorized")
      ELSE Returned([db EXCEPT !.sets = @ \cup {row}], {row})

\* mutant: existingSets[0]?.setNumber ?? -1, as for the order of an exercise
addSetToWorkoutExercise_FromZero(db, userId, workoutExerciseId, data, id) ==
  LET workoutExercise ==
        {we \in db.workoutExercises : we.id = workoutExerciseId}
      existingSets ==
        OrderByDesc({s \in db.sets : s.workoutExerciseId = workoutExerciseId},
                    "setNumber")
      maxSetNumber == IF existingSets = <<>> THEN 0 - 1
                      ELSE existingSets[1].setNumber
      row == [id |-> id, workoutExerciseId |-> workoutExerciseId,
              setNumber |-> maxSetNumber + 1,
              reps |-> data.reps,
              weight |-> IF data.weight # {} /\ Elem(data.weight) # 0
                           THEN {ToNumeric(Elem(data.weight))} ELSE {}]
  IN  IF \/ workoutExercise = {}
         \/ OwnerOfWorkoutExercise(db, Elem(workoutExercise)) # {userId}
        THEN Threw(db, "Workout exercise not found or unauthorized")
      ELSE Returned([db EXCEPT !.sets = @ \cup {row}], {row})

addSetToWorkoutExercise(db, userId, workoutExerciseId, data, id) ==
  LET workoutExercise ==
        {we \in db.workoutExercises : we.id = workoutExerciseId}
      existingSets ==
        OrderByDesc({s \in db.sets : s.workoutExerciseId = workoutExerciseId},
                    "setNumber")
      maxSetNumber == IF existingSets = <<>> THEN 0
                      ELSE existingSets[1].setNumber
      row == [id |-> id, workoutExerciseId |-> workoutExerciseId,
              setNumber |-> maxSetNumber + 1,
              reps |-> data.reps,
              weight |-> IF data.weight # {} /\ Elem(data.weight) # 0
                           THEN {ToNumeric(Elem(data.weight))} ELSE {}]
  IN  IF \/ workoutExercise = {}
         \/ OwnerOfWorkoutExercise(db, Elem(workoutExercise)) # {userId}
        THEN Threw(db, "Workout exercise not found or unauthorized")
      ELSE Returned([db EXCEPT !.sets = @ \cup {row}], {row})

\* the owner a set resolves to through its workout-exercise and workout
OwnerOfSet(db, s) ==
  UNION {OwnerOfWorkoutExercise(db, we) :
           we \in {x \in db.workoutExercises : x.id = s.workoutExerciseId}}

\* mutant: an omitted field written as null, as the insert writes weight
updateSet_NullsOmitted(db, userId, setId, data) ==
  LET set == {s \in db.sets : s.id = setId}
      upd(s) == [s EXCEPT
                   !.reps = data.reps,
                   !.weight = IF data.weight = {} THEN {}
                              ELSE {ToNumeric(Elem(data.weight))}]
  IN  IF set = {} \/ OwnerOfSet(db, Elem(set)) # {userId}
        THEN Threw(db, "Set not found or unauthorized")
      ELSE IF data.reps = {} /\ data.weight = {}
        THEN Threw(db, NoValuesToSet)
      ELSE Returned([db EXCEPT !.sets = (@ \ set) \cup {upd(s) : s \in set}],
                    {upd(s) : s \in set})

updateSet(db, userId, setId, data) ==
  LET set == {s \in db.sets : s.id = setId}
      upd(s) == [s EXCEPT
                   !.reps = IF data.reps = {} THEN @ ELSE data.reps,
                   !.weight = IF data.weight = {} THEN @
                              ELSE {ToNumeric(Elem(data.weight))}]
  IN  IF set = {} \/ OwnerOfSet(db, Elem(set)) # {userId}
        THEN Threw(db, "Set not found or unauthorized")
      ELSE IF data.reps = {} /\ data.weight = {}
        THEN Threw(db, NoValuesToSet)
      ELSE Returned([db EXCEPT !.sets = (@ \ set) \cup {upd(s) : s \in set}],
                    {upd(s) : s \in set})

\* mutant: the delete without the ownership check
deleteSet_Unchecked(db, userId, setId) ==
  LET set == {s \in db.sets : s.id = setId}
  IN  IF set = {} THEN Threw(db, "Set not found or unauthorized")
      ELSE Returned([db EXCEPT !.sets = @ \ set], {})

deleteSet(db, userId, setId) ==
  LET set == {s \in db.sets : s.id = setId}
  IN  IF set = {} \/ OwnerOfSet(db, Elem(set)) # {userId}
        THEN Threw(db, "Set not found or unauthorized")
      ELSE Returned([db EXCEPT !.sets = @ \ set], {})

\* the order asc(exercises.name) puts the names of the model in
NameOrder == <<"", LongName, "A", "B">>
NameRank(name) == CHOOSE i \in DOMAIN NameOrder : NameOrder[i] = name

\* findMany with orderBy asc(exercises.name): every row, by name; the store
\* is free in the order of rows of the same name, so these are the results
\* it can give
getAllExercises(db) ==
  {result \in [1 .. Cardinality(db.exercises) -> db.exercises] :
     /\ \A i, j \in DOMAIN result : i # j => result[i] # result[j]
     /\ \A i, j \in DOMAIN result :
          i < j => NameRank(result[i].name) <= NameRank(result[j].name)}

\* mutant: the row of the same name returned instead of a new one
createExercise_Deduplicates(db, userId, name, id) ==
  LET row == [id |-> id, name |-> name, createdBy |-> {userId}]
      same == {e \in db.exercises : e.name = name}
  IN  IF same # {} THEN Returned(db, {CHOOSE e \in same : TRUE})
      ELSE Returned([db EXCEPT !.exercises = @ \cup {row}], {row})

\* src/data/exercises.ts
createExercise(db, userId, name, id) ==
  LET row == [id |-> id, name |-> name, createdBy |-> {userId}]
  IN  Returned([db EXCEPT !.exercises = @ \cup {row}], {row})

\* ------------------------------------------------------- validation (zod)
\* an issue is a path and a message; safeParse lists them in schema order
Issue(path, message) == [path |-> path, message |-> message]

UuidIssues(path, id, message) ==
  IF id = 0 THEN <<Issue(path, message)>> ELSE <<>>

NameIssues(name, required, tooLong) ==
  IF Len(name) < 1 THEN <<Issue("name", required)>>
  ELSE IF Len(name) > 100 THEN <<Issue("name", tooLong)>>
  ELSE <<>>

DateIssues(startedAt) ==
  IF startedAt = InvalidDate THEN <<Issue("startedAt", "Invalid date")>>
  ELSE <<>>

\* mutant: the schema of reps without .max(999)
RepsIssues_NoMax(reps) ==
  IF reps = {} THEN <<>>
  ELSE IF Elem(reps) < 0
    THEN <<Issue("reps", "Number must be greater than or equal to 0")>>
  ELSE <<>>

RepsIssues(reps) ==
  IF reps = {} THEN <<>>
  ELSE IF Elem(reps) < 0
    THEN <<Issue("reps", "Number must be greater than or equal to 0")>>
  ELSE IF Elem(reps) > 999
    THEN <<Issue("reps", "Number must be less than or equal to 999")>>
  ELSE <<>>

WeightIssues(weight) ==
  IF weight = {} THEN <<>>
  ELSE IF Elem(weight) < 0
    THEN <<Issue("weight", "Number must be greater than or equal to 0")>>
  ELSE IF Elem(weight) > 9999990
    THEN <<Issue("weight", "Number must be less than or equal to 9999.99")>>
  ELSE <<>>

createWorkoutSchema(input) ==
  NameIssues(input.name, "Workout name is required",
             "Workout name must be 100 characters or less")
  \o DateIssues(input.startedAt)

updateWorkoutSchema(input) ==
  UuidIssues("workoutId", input.workoutId, "Invalid workout ID")
  \o NameIssues(input.name, "Workout name is required",
                "Workout name must be 100 characters or less")
  \o DateIssues(input.startedAt)

addExerciseToWorkoutSchema(input) ==
  UuidIssues("workoutId", input.workoutId, "Invalid workout ID")
  \o UuidIssues("exerciseId", input.exerciseId, "Invalid exercise ID")

removeExerciseSchema(input) ==
  UuidIssues("workoutExerciseId", input.workoutExerciseId,
             "Invalid workout exercise ID")

createExerciseSchema(input) ==
  NameIssues(input.name, "Exercise name is required",
             "Exercise name must be 100 characters or less")

addSetSchema(input) ==
  UuidIssues("workoutExerciseId", input.workoutExerciseId,
             "Invalid workout exercise ID")
  \o RepsIssues(input.reps) \o WeightIssues(input.weight)

updateSetSchema(input) ==
  UuidIssues("setId", input.setId, "Invalid set ID")
  \o RepsIssues(input.reps) \o WeightIssues(input.weight)

deleteSetSchema(input) ==
  UuidIssues("setId", input.setId, "Invalid set ID")

\* mutant: only the first issue reported, as the other six actions do
FieldErrorsOf_FirstIssueOnly(issues, fields) ==
  [f \in {issues[1].path} \cap fields |-> issues[1].message]

\* the loop that keeps, for each field of `fields`, its first issue's message
FieldErrorsOf(issues, fields) ==
  [f \in {issues[i].path : i \in DOMAIN issues} \cap fields |->
     LET first == CHOOSE i \in DOMAIN issues :
                    /\ issues[i].path = f
                    /\ \A j \in DOMAIN issues : issues[j].path = f => i <= j
     IN  issues[first].message]

\* the local calendar day formatLocalDate renders into the redirect url
LocalDay(date) == date \div DayMs

\* ----------------------------------------------------- what a handler did
\* its result: a returned object, or a thrown error
Success(payload) ==
  [threw |-> FALSE, success |-> TRUE, error |-> "", fieldErrors |-> {},
   payload |-> payload]
Failure(message) ==
  [threw |-> FALSE, success |-> FALSE, error |-> message, fieldErrors |-> {},
   payload |-> {}]
Invalid(fieldErrors) ==
  [threw |-> FALSE, success |-> FALSE, error |-> "",
   fieldErrors |-> {fieldErrors}, payload |-> {}]
Thrown(message) ==
  [threw |-> TRUE, success |-> FALSE, error |-> message, fieldErrors |-> {},
   payload |-> {}]

\* the data-access call it made, with what the call returned or threw
Call(fn, userId, args, r) ==
  [fn |-> fn, userId |-> userId, args |-> args,
   threw |-> r.threw, error |-> r.error, value |-> r.value]

Handled(db, resp, calls, paths) ==
  [db |-> db, response |-> resp, call |-> calls, revalidated |-> paths]

\* ---------------------------------------------------------- server actions
\* userId is what auth() returns; id is the uuid and ts the created_at the
\* store gives a row inserted now
createWorkout(db, userId, input, id, ts) ==
  LET issues == createWorkoutSchema(input)
      r == createWorkoutForUser(db, userId,
             [name |-> input.name, startedAt |-> input.startedAt], id, ts)
  IN  IF issues # <<>>
        THEN Handled(db, Invalid(FieldErrorsOf(issues, {"name", "startedAt"})),
                     {}, {})
      ELSE IF userId = NoUser THEN Handled(db, Thrown("Unauthorized"), {}, {})
      ELSE Handled(r.db,
             Success({[path |-> "/dashboard",
                       date |-> LocalDay(input.startedAt)]}),
             {Call("createWorkoutForUser", userId, input, r)},
             {"/dashboard"})

\* mutant: the missing user reported as the six other actions report it
updateWorkout_ReportsUnauthorized(db, userId, input) ==
  LET issues == updateWorkoutSchema(input)
      r == updateWorkoutForUser(db, userId, input.workoutId,
             [name |-> {input.name}, startedAt |-> {input.startedAt}])
  IN  IF issues # <<>>
        THEN Handled(db, Invalid(FieldErrorsOf(issues, {"name", "startedAt"})),
                     {}, {})
      ELSE IF userId = NoUser THEN Handled(db, Failure("Unauthorized"), {}, {})
      ELSE Handled(r.db,
             Success({[path |-> "/dashboard",
                       date |-> LocalDay(input.startedAt)]}),
             {Call("updateWorkoutForUser", userId, input, r)},
             {"/dashboard"})

updateWorkout(db, userId, input) ==
  LET issues == updateWorkoutSchema(input)
      r == updateWorkoutForUser(db, userId, input.workoutId,
             [name |-> {input.name}, startedAt |-> {input.startedAt}])
  IN  IF issues # <<>>
        THEN Handled(db, Invalid(FieldErrorsOf(issues, {"name", "startedAt"})),
                     {}, {})
      ELSE IF userId = NoUser THEN Handled(db, Thrown("Unauthorized"), {}, {})
      ELSE Handled(r.db,
             Success({[path |-> "/dashboard",
                       date |-> LocalDay(input.startedAt)]}),
             {Call("updateWorkoutForUser", userId, input, r)},
             {"/dashboard"})

addExerciseToWorkoutAction(db, userId, input, id) ==
  LET issues == addExerciseToWorkoutSchema(input)
      r == addExerciseToWorkout(db, userId, input.workoutId, input.exerciseId,
                                id)
      c == {Call("addExerciseToWorkout", userId, input, r)}
  IN  IF issues # <<>> THEN Handled(db, Failure(issues[1].message), {}, {})
      ELSE IF userId = NoUser THEN Handled(db, Failure("Unauthorized"), {}, {})
      ELSE IF r.threw THEN Handled(r.db, Failure(r.error), c, {})
      ELSE Handled(r.db, Success({}), c, {"/dashboard/workout/[workoutId]"})

\* mutant: the data-access call outside the try block
removeExerciseAction_Uncaught(db, userId, input) ==
  LET issues == removeExerciseSchema(input)
      r == removeExerciseFromWorkout(db, userId, input.workoutExerciseId)
      c == {Call("removeExerciseFromWorkout", userId, input, r)}
  IN  IF issues # <<>> THEN Handled(db, Failure(issues[1].message), {}, {})
      ELSE IF userId = NoUser THEN Handled(db, Failure("Unauthorized"), {}, {})
      ELSE IF r.threw THEN Handled(r.db, Thrown(r.error), c, {})
      ELSE Handled(r.db, Success({}), c, {"/dashboard/workout"})

removeExerciseAction(db, userId, input) ==
  LET issues == removeExerciseSchema(input)
      r == removeExerciseFromWorkout(db, userId, input.workoutExerciseId)
      c == {Call("removeExerciseFromWorkout", userId, input, r)}
  IN  IF issues # <<>> THEN Handled(db, Failure(issues[1].message), {}, {})
      ELSE IF userId = NoUser THEN Handled(db, Failure("Unauthorized"), {}, {})
      ELSE IF r.threw THEN Handled(r.db, Failure(r.error), c, {})
      ELSE Handled(r.db, Success({}), c, {"/dashboard/workout"})

createExerciseAction(db, userId, input, id) ==
  LET issues == createExerciseSchema(input)
      r == createExercise(db, userId, input.name, id)
      c == {Call("createExercise", userId, input, r)}
  IN  IF issues # <<>> THEN Handled(db, Failure(issues[1].message), {}, {})
      ELSE IF userId = NoUser THEN Handled(db, Failure("Unauthorized"), {}, {})
      ELSE IF r.threw THEN Handled(r.db, Failure(r.error), c, {})
      ELSE Handled(r.db, Success({Elem(r.value).id}), c, {})

\* mutant: auth() before safeParse
addSetAction_IdentityFirst(db, userId, input, id) ==
  LET issues == addSetSchema(input)
      r == addSetToWorkoutExercise(db, userId, input.workoutExerciseId,
             [reps |-> input.reps, weight |-> input.weight], id)
      c == {Call("addSetToWorkoutExercise", userId, input, r)}
  IN  IF userId = NoUser THEN Handled(db, Failure("Unauthorized"), {}, {})
      ELSE IF issues # <<>> THEN Handled(db, Failure(issues[1].message), {}, {})
      ELSE IF r.threw THEN Handled(r.db, Failure(r.error), c, {})
      ELSE Handled(r.db, Success({}), c, {"/dashboard/workout"})

addSetAction(db, userId, input, id) ==
  LET issues == addSetSchema(input)
      r == addSetToWorkoutExercise(db, userId, input.workoutExerciseId,
             [reps |-> input.reps, weight |-> input.weight], id)
      c == {Call("addSetToWorkoutExercise", userId, input, r)}
  IN  IF issues # <<>> THEN Handled(db, Failure(issues[1].message), {}, {})
      ELSE IF userId = NoUser THEN Handled(db, Failure("Unauthorized"), {}, {})
      ELSE IF r.threw THEN Handled(r.db, Failure(r.error), c, {})
      ELSE Handled(r.db, Success({}), c, {"/dashboard/workout"})

\* mutant: the data-access call outside the try block
updateSetAction_Uncaught(db, userId, input) ==
  LET issues == updateSetSchema(input)
      r == updateSet(db, userId, input.setId,
                     [reps |-> input.reps, weight |-> input.weight])
      c == {Call("updateSet", userId, input, r)}
  IN  IF issues # <<>> THEN Handled(db, Failure(issues[1].message), {}, {})
      ELSE IF userId = NoUser THEN Handled(db, Failure("Unauthorized"), {}, {})
      ELSE IF r.threw THEN Handled(r.db, Thrown(r.error), c, {})
      ELSE Handled(r.db, Success({}), c, {"/dashboard/workout"})

updateSetAction(db, userId, input) ==
  LET issues == updateSetSchema(input)
      r == updateSet(db, userId, input.setId,
                     [reps |-> input.reps, weight |-> input.weight])
      c == {Call("updateSet", userId, input, r)}
  IN  IF issues # <<>> THEN Handled(db, Failure(issues[1].message), {}, {})
      ELSE IF userId = NoUser THEN Handled(db, Failure("Unauthorized"), {}, {})
      ELSE IF r.threw THEN Handled(r.db, Failure(r.error), c, {})
      ELSE Handled(r.db, Success({}), c, {"/dashboard/workout"})

\* mutant: the data-access call outside the try block
deleteSetAction_Uncaught(db, userId, input) ==
  LET issues == deleteSetSchema(input)
      r == deleteSet(db, userId, input.setId)
      c == {Call("deleteSet", userId, input, r)}
  IN  IF issues # <<>> THEN Handled(db, Failure(issues[1].message), {}, {})
      ELSE IF userId = NoUser THEN Handled(db, Failure("Unauthorized"), {}, {})
      ELSE IF r.threw THEN Handled(r.db, Thrown(r.error), c, {})
      ELSE Handled(r.db, Success({}), c, {"/dashboard/workout"})

deleteSetAction(db, userId, input) ==
  LET issues == deleteSetSchema(input)
      r == deleteSet(db, userId, input.setId)
      c == {Call("deleteSet", userId, input, r)}
  IN  IF issues # <<>> THEN Handled(db, Failure(issues[1].message), {}, {})
      ELSE IF userId = NoUser THEN Handled(db, Failure("Unauthorized"), {}, {})
      ELSE IF r.threw THEN Handled(r.db, Failure(r.error), c, {})
      ELSE Handled(r.db, Success({}), c, {"/dashboard/workout"})

\* ------------------------------------------------------------------- pages
NotFound == "NEXT_HTTP_ERROR_FALLBACK;404"

\* a caller of getUserWorkouts: the list, or the error it throws
ListWorkouts(db, userId) ==
  LET r == getUserWorkouts(db, userId)
      c == {Call("getUserWorkouts", userId, [none |-> {}], r)}
  IN  IF r.threw THEN Handled(db, Thrown(r.error), c, {})
      ELSE Handled(db, Success({r.value}), c, {})

DashboardPage(db, userId, input) ==
  LET r == getUserWorkoutsByDate(db, userId, input.date)
      c == {Call("getUserWorkoutsByDate", userId, input, r)}
  IN  IF r.threw THEN Handled(db, Thrown(r.error), c, {})
      ELSE Handled(db, Success({r.value}), c, {})

EditWorkoutPage(db, userId, input) ==
  LET r == getUserWorkoutById(db, userId, input.workoutId)
      c == {Call("getUserWorkoutById", userId, input, r)}
  IN  IF r.threw THEN Handled(db, Thrown(r.error), c, {})
      ELSE IF r.value = {} THEN Handled(db, Thrown(NotFound), c, {})
      ELSE Handled(db, Success(r.value), c, {})

\* ------------------------------------------------- src/lib/date-utils.ts
\* a string is the sequence of its characters; a Date is its local calendar
\* fields: getFullYear(), getMonth() (0 is January) and getDate()
Digits == <<"0", "1", "2", "3", "4", "5", "6", "7", "8", "9">>

\* dateString.split(sep)
split(str, sep) ==
  LET parts[i \in 0 .. Len(str)] ==
        IF i = 0 THEN << <<>> >>
        ELSE IF str[i] = sep THEN Append(parts[i - 1], <<>>)
        ELSE [parts[i - 1] EXCEPT ![Len(parts[i - 1])] = Append(@, str[i])]
  IN  parts[Len(str)]

\* Number(str) of a string of decimal digits
Number(str) ==
  LET value[i \in 0 .. Len(str)] ==
        IF i = 0 THEN 0
        ELSE value[i - 1] * 10
             + (CHOOSE d \in 0 .. 9 : Digits[d + 1] = str[i])
  IN  value[Len(str)]

\* String(n) of a natural number: its decimal digits, no padding
String(n) ==
  LET len == IF n < 10 THEN 1 ELSE IF n < 100 THEN 2
             ELSE IF n < 1000 THEN 3 ELSE IF n < 10000 THEN 4 ELSE 5
  IN  [i \in 1 .. len |-> Digits[((n \div (10 ^ (len - i))) % 10) + 1]]

\* str.padStart(targetLength, padString), padString one character
padStart(str, targetLength, padString) ==
  [i \in 1 .. (targetLength - Len(str)) |-> padString] \o str

DaysInMonth(year, monthIndex) ==
  IF monthIndex = 1
    THEN IF year % 4 = 0 /\ (year % 100 # 0 \/ year % 400 = 0) THEN 29 ELSE 28
  ELSE IF monthIndex \in {3, 5, 8, 10} THEN 30
  ELSE 31

\* new Date(year, monthIndex, day): a year from 0 to 99 means 1900 + year,
\* and a day past the end of the month runs into the next month
NewDate(year, monthIndex, day) ==
  LET y == IF year >= 0 /\ year <= 99 THEN 1900 + year ELSE year
      days == DaysInMonth(y, monthIndex)
  IN  IF day <= days THEN [year |-> y, month |-> monthIndex, date |-> day]
      ELSE IF monthIndex = 11
        THEN [year |-> y + 1, month |-> 0, date |-> day - days]
      ELSE [year |-> y, month |-> monthIndex + 1, date |-> day - days]

\* mutant: the suffix by the last digit alone
getOrdinalSuffix_LastDigitOnly(day) ==
  CASE day % 10 = 1 -> <<"s", "t">>
    [] day % 10 = 2 -> <<"n", "d">>
    [] day % 10 = 3 -> <<"r", "d">>
    [] OTHER -> <<"t", "h">>

getOrdinalSuffix(day) ==
  IF day > 3 /\ day < 21 THEN <<"t", "h">>
  ELSE CASE day % 10 = 1 -> <<"s", "t">>
         [] day % 10 = 2 -> <<"n", "d">>
         [] day % 10 = 3 -> <<"r", "d">>
         [] OTHER -> <<"t", "h">>

\* the month names of date-fns' default locale for 'MMM'
MonthAbbreviations ==
  << <<"J", "a", "n">>, <<"F", "e", "b">>, <<"M", "a", "r">>,
     <<"A", "p", "r">>, <<"M", "a", "y">>, <<"J", "u", "n">>,
     <<"J", "u", "l">>, <<"A", "u", "g">>, <<"S", "e", "p">>,
     <<"O", "c", "t">>, <<"N", "o", "v">>, <<"D", "e", "c">> >>

\* date-fns format(d, token) for the tokens formatDate uses: 'd' is the day
\* of the month unpadded, 'MMM' the abbreviated month, 'yyyy' the year
\* padded with zeros to four digits
format(d, token) ==
  CASE token = "d" -> String(d.date)
    [] token = "MMM" -> MonthAbbreviations[d.month + 1]
    [] token = "yyyy" -> padStart(String(d.year), 4, "0")

formatDate(d) ==
  LET day == format(d, "d")
      month == format(d, "MMM")
      year == format(d, "yyyy")
      suffix == getOrdinalSuffix(Number(day))
  IN  day \o suffix \o <<" ">> \o month \o <<" ">> \o year

parseLocalDate(str) ==
  LET parts == split(str, "-")
  IN  NewDate(Number(parts[1]), Number(parts[2]) - 1, Number(parts[3]))

formatLocalDate(d) ==
  String(d.year) \o <<"-">> \o padStart(String(d.month + 1), 2, "0")
  \o <<"-">> \o padStart(String(d.date), 2, "0")

\* ------------------------------------------- src/middleware.ts, src/proxy.ts
\* A pathname is the sequence of its pieces: the separators "/", the words
\* between them and the extensions (a dot and what follows it), so that
\* <<"/", "dashboard", "/", "a", ".csv">> is /dashboard/a.csv and
\* <<"/", "dashboard", "x">> is /dashboardx.
StartsWith(pathname, prefix) ==
  /\ Len(pathname) >= Len(prefix)
  /\ SubSeq(pathname, 1, Len(prefix)) = prefix

\* createRouteMatcher(['/dashboard(.*)']): /dashboard and whatever follows it
isProtectedRoute(pathname) == StartsWith(pathname, <<"/", "dashboard">>)

\* createRouteMatcher(['/']) of middleware.ts
isHomepage(pathname) == pathname = <<"/">>

\* the extensions of the first pattern of config.matcher that the pathnames
\* of the model use; .json is not one of them (js(?!on))
StaticExtensions == {".html", ".css", ".js", ".png", ".ico", ".csv"}

\* config.matcher: the handler runs for a pathname that neither begins with
\* /_next nor has a static extension anywhere in it, and for every pathname
\* that begins with /api or /trpc
matcher(pathname) ==
  \/ /\ ~StartsWith(pathname, <<"/", "_next">>)
     /\ \A i \in 1 .. Len(pathname) : pathname[i] \notin StaticExtensions
  \/ StartsWith(pathname, <<"/", "api">>)
  \/ StartsWith(pathname, <<"/", "trpc">>)

\* auth.protect(): a request with no user is sent to sign-in
protect(userId) == IF userId = NoUser THEN "redirectToSignIn" ELSE "next"

\* the handler given to clerkMiddleware in middleware.ts
middleware(userId, pathname) ==
  IF userId # NoUser /\ isHomepage(pathname) THEN "redirect /dashboard"
  ELSE IF isProtectedRoute(pathname) THEN protect(userId)
  ELSE "next"

\* the handler given to clerkMiddleware in proxy.ts
proxy(userId, pathname) ==
  IF userId # NoUser /\ pathname = <<"/">> THEN "redirect /dashboard"
  ELSE IF isProtectedRoute(pathname) THEN protect(userId)
  ELSE "next"

\* what becomes of a request: the handler runs only where config.matcher
\* selects the pathname, and elsewhere the request goes on to its route
\* without the handler
Route(handler, userId, pathname, outcome) ==
  [handler |-> handler, userId |-> userId, pathname |-> pathname,
   outcome |-> IF matcher(pathname) THEN outcome ELSE "not invoked"]

\* ------------------------------------------------------------ the machine
Sessions == Users \cup {NoUser}

\* the uuids a request may name for a row of table t: 0 is no uuid, 1 up to
\* nextId[t] - 1 are the uuids the table has generated, nextId[t] is a uuid
\* the table holds no row of
IdInputs(t) == 0 .. nextId[t]

\* one request served from start to end: h is what the handler did
Serve(h) ==
  LET grew(old, new) == IF Cardinality(new) > Cardinality(old) THEN 1 ELSE 0
      rows == grew(workouts, h.db.workouts) + grew(exercises, h.db.exercises)
              + grew(workoutExercises, h.db.workoutExercises)
              + grew(sets, h.db.sets)
  IN  /\ inserted + rows <= MaxInserts
      /\ nextId.workouts + grew(workouts, h.db.workouts) <= MaxWorkouts + 1
      /\ nextId.exercises + grew(exercises, h.db.exercises) <= MaxExercises + 1
      /\ nextId.workoutExercises + grew(workoutExercises, h.db.workoutExercises)
           <= MaxWorkoutExercises + 1
      /\ nextId.sets + grew(sets, h.db.sets) <= MaxSets + 1
      /\ workouts' = h.db.workouts
      /\ exercises' = h.db.exercises
      /\ workoutExercises' = h.db.workoutExercises
      /\ sets' = h.db.sets
      /\ nextId' = [workouts |-> nextId.workouts + grew(workouts, h.db.workouts),
                    exercises |-> nextId.exercises + grew(exercises, h.db.exercises),
                    workoutExercises |-> nextId.workoutExercises
                       + grew(workoutExercises, h.db.workoutExercises),
                    sets |-> nextId.sets + grew(sets, h.db.sets)]
      /\ now' = now + grew(workouts, h.db.workouts)
      /\ inserted' = inserted + rows
      /\ everSet' = everSet \cup
           {[id |-> s.id, workoutExerciseId |-> s.workoutExerciseId,
             setNumber |-> s.setNumber] :
              s \in {x \in h.db.sets : \A y \in sets : y.id # x.id}}
      /\ UNCHANGED <<dateVars, inFlight>>

CreateWorkoutRequest ==
  \E u \in Sessions, name \in NameInputs, startedAt \in StartedAtInputs :
    Serve(createWorkout(Db, u, [name |-> name, startedAt |-> startedAt],
                        nextId.workouts, now))

UpdateWorkoutRequest ==
  \E u \in Sessions, id \in IdInputs("workouts"), name \in NameInputs,
     startedAt \in StartedAtInputs :
    Serve(updateWorkout(Db, u, [workoutId |-> id, name |-> name,
                                startedAt |-> startedAt]))

AddExerciseToWorkoutRequest ==
  \E u \in Sessions, w \in IdInputs("workouts"), e \in IdInputs("exercises") :
    Serve(addExerciseToWorkoutAction(Db, u, [workoutId |-> w, exerciseId |-> e],
                                     nextId.workoutExercises))

RemoveExerciseRequest ==
  \E u \in Sessions, we \in IdInputs("workoutExercises") :
    Serve(removeExerciseAction(Db, u, [workoutExerciseId |-> we]))

CreateExerciseRequest ==
  \E u \in Sessions, name \in NameInputs :
    Serve(createExerciseAction(Db, u, [name |-> name], nextId.exercises))

AddSetRequest ==
  \E u \in Sessions, we \in IdInputs("workoutExercises"), reps \in RepsInputs,
     weight \in WeightInputs :
    Serve(addSetAction(Db, u, [workoutExerciseId |-> we, reps |-> reps,
                               weight |-> weight], nextId.sets))

UpdateSetRequest ==
  \E u \in Sessions, id \in IdInputs("sets"), reps \in RepsInputs,
     weight \in WeightInputs :
    Serve(updateSetAction(Db, u, [setId |-> id, reps |-> reps,
                                  weight |-> weight]))

DeleteSetRequest ==
  \E u \in Sessions, id \in IdInputs("sets") :
    Serve(deleteSetAction(Db, u, [setId |-> id]))

ListWorkoutsRequest ==
  \E u \in Sessions : Serve(ListWorkouts(Db, u))

DashboardPageRequest ==
  \E u \in Sessions, date \in DateInputs :
    Serve(DashboardPage(Db, u, [date |-> date]))

EditWorkoutPageRequest ==
  \E u \in Sessions, id \in IdInputs("workouts") :
    Serve(EditWorkoutPage(Db, u, [workoutId |-> id]))

\* the empty store
Init ==
  /\ workouts = {} /\ exercises = {} /\ workoutExercises = {} /\ sets = {}
  /\ nextId = [workouts |-> 1, exercises |-> 1, workoutExercises |-> 1,
               sets |-> 1]
  /\ now = 1
  /\ inserted = 0
  /\ everSet = {}
  /\ dateString = <<>> /\ parsedDate = {} /\ formatted = {}
  /\ display = {} /\ routed = {}
  /\ inFlight = [p \in Procs |-> Idle]

Next ==
  \/ CreateWorkoutRequest
  \/ UpdateWorkoutRequest
  \/ AddExerciseToWorkoutRequest
  \/ RemoveExerciseRequest
  \/ CreateExerciseRequest
  \/ AddSetRequest
  \/ UpdateSetRequest
  \/ DeleteSetRequest
  \/ ListWorkoutsRequest
  \/ DashboardPageRequest
  \/ EditWorkoutPageRequest

Spec == Init /\ [][Next]_vars

\* a store Spec reaches: one exercise, a workout of each user with the
\* exercise in it, and no set
SeedDb ==
  [exercises |-> {[id |-> 1, name |-> "A", createdBy |-> {"u1"}]},
   workouts |-> {[id |-> 1, userId |-> "u1", name |-> "A",
                  startedAt |-> Day0Noon, createdAt |-> 1],
                 [id |-> 2, userId |-> "u2", name |-> "B",
                  startedAt |-> Day1Noon, createdAt |-> 2]},
   workoutExercises |-> {[id |-> 1, workoutId |-> 1, exerciseId |-> 1,
                          order |-> 0],
                         [id |-> 2, workoutId |-> 2, exerciseId |-> 1,
                          order |-> 0]},
   sets |-> {}]

InitSets ==
  /\ workouts = SeedDb.workouts
  /\ exercises = SeedDb.exercises
  /\ workoutExercises = SeedDb.workoutExercises
  /\ sets = SeedDb.sets
  /\ nextId = [workouts |-> 3, exercises |-> 2, workoutExercises |-> 3,
               sets |-> 1]
  /\ now = 3
  /\ inserted = 0
  /\ everSet = {}
  /\ dateString = <<>> /\ parsedDate = {} /\ formatted = {}
  /\ display = {} /\ routed = {}
  /\ inFlight = [p \in Procs |-> Idle]

\* the requests that add, change and delete sets
NextSets ==
  \/ AddSetRequest
  \/ UpdateSetRequest
  \/ DeleteSetRequest

SpecSets == InitSets /\ [][NextSets]_vars

\* ------------------------------------------------ the calls of date-utils
\* the valid calendar date strings YYYY-MM-DD the calls are given
YearInputs == {0, 50, 99, 100, 999, 1000, 1900, 2024, 9999}
MonthInputs == {1, 2, 12}
DayInputs == {1, 9, 28, 29, 31}

IsoDate(year, month, day) ==
  LET digit(n, unit) == Digits[((n \div unit) % 10) + 1]
  IN  <<digit(year, 1000), digit(year, 100), digit(year, 10), digit(year, 1),
        "-", digit(month, 10), digit(month, 1),
        "-", digit(day, 10), digit(day, 1)>>

\* the same, and every day of a January and of a March
DateStringInputs ==
  {IsoDate(y, m, d) :
     <<y, m, d>> \in {t \in YearInputs \X MonthInputs \X DayInputs :
                        t[3] <= DaysInMonth(t[1], t[2] - 1)}}
  \cup {IsoDate(999, 1, d) : d \in 1 .. 31}
  \cup {IsoDate(2024, 3, d) : d \in 1 .. 31}

ParseLocalDateCall ==
  /\ \E str \in DateStringInputs :
       /\ dateString' = str
       /\ parsedDate' = {parseLocalDate(str)}
  /\ formatted' = {} /\ display' = {}
  /\ UNCHANGED <<workouts, exercises, workoutExercises, sets, nextId, now,
                 inserted, everSet, routed, inFlight>>

FormatLocalDateCall ==
  /\ parsedDate # {} /\ formatted = {}
  /\ formatted' = {formatLocalDate(Elem(parsedDate))}
  /\ UNCHANGED <<workouts, exercises, workoutExercises, sets, nextId, now,
                 inserted, everSet, dateString, parsedDate, display, routed,
                 inFlight>>

FormatDateCall ==
  /\ parsedDate # {} /\ display = {}
  /\ display' = {formatDate(Elem(parsedDate))}
  /\ UNCHANGED <<workouts, exercises, workoutExercises, sets, nextId, now,
                 inserted, everSet, dateString, parsedDate, formatted, routed,
                 inFlight>>

NextDates ==
  \/ ParseLocalDateCall
  \/ FormatLocalDateCall
  \/ FormatDateCall

SpecDates == Init /\ [][NextDates]_vars

\* ------------------------- the data-access functions, statement by statement
\* Each await of a data-access function is one round trip to the store, and
\* the requests of two sessions interleave between the round trips.

\* ------------------------------------------------- the routing of requests
\* the pathnames requested
PathInputs ==
  { <<"/">>,
    <<"/", "dashboard">>,
    <<"/", "dashboard", "/">>,
    <<"/", "dashboard", "/", "workout", "/", "new">>,
    <<"/", "dashboard", "/", "workout", "/", "a">>,
    <<"/", "dashboard", "/", "workout", "/", "a", ".csv">>,
    <<"/", "dashboard", "/", "workout", "/", "a", ".json">>,
    <<"/", "dashboard", "/", "settings", ".html">>,
    <<"/", "dashboard", "x">>,
    <<"/", "dashboard", "-", "old">>,
    <<"/", "sign-in">>,
    <<"/", "sign-up">>,
    <<"/", "about">>,
    <<"/", "about", ".html">>,
    <<"/", "favicon", ".ico">>,
    <<"/", "_next", "/", "static", "/", "main", ".js">>,
    <<"/", "_next", "/", "image">>,
    <<"/", "api", "/", "workouts">>,
    <<"/", "api", "/", "export", ".csv">>,
    <<"/", "trpc", "/", "workouts">> }

MiddlewareRequest ==
  /\ \E u \in Sessions, pathname \in PathInputs :
       routed' = {Route("middleware", u, pathname, middleware(u, pathname))}
  /\ UNCHANGED <<workouts, exercises, workoutExercises, sets, nextId, now,
                 inserted, everSet, dateString, parsedDate, formatted, display,
                 inFlight>>

ProxyRequest ==
  /\ \E u \in Sessions, pathname \in PathInputs :
       routed' = {Route("proxy", u, pathname, proxy(u, pathname))}
  /\ UNCHANGED <<workouts, exercises, workoutExercises, sets, nextId, now,
                 inserted, everSet, dateString, parsedDate, formatted, display,
                 inFlight>>

NextRoutes ==
  \/ MiddlewareRequest
  \/ ProxyRequest

SpecRoutes == Init /\ [][NextRoutes]_vars

\* mutant: a schema without references(() => workoutExercises.id)
insertSet_NoForeignKey(db, row) ==
  Returned([db EXCEPT !.sets = @ \cup {row}], {row})

\* mutant: a schema with a unique index on (workoutExerciseId, setNumber)
insertSet_UniqueSetNumber(db, row) ==
  IF \A we \in db.workoutExercises : we.id # row.workoutExerciseId
    THEN Threw(db, FkViolation)
  ELSE IF \E s \in db.sets : /\ s.workoutExerciseId = row.workoutExerciseId
                             /\ s.setNumber = row.setNumber
    THEN Threw(db, "violates unique constraint")
  ELSE Returned([db EXCEPT !.sets = @ \cup {row}], {row})

\* db.insert(sets): the store checks the foreign key of the row
insertSet(db, row) ==
  IF \A we \in db.workoutExercises : we.id # row.workoutExerciseId
    THEN Threw(db, FkViolation)
  ELSE Returned([db EXCEPT !.sets = @ \cup {row}], {row})

\* db.insert(workoutExercises): the store checks both foreign keys of the row
insertWorkoutExercise(db, row) ==
  IF \/ \A w \in db.workouts : w.id # row.workoutId
     \/ \A e \in db.exercises : e.id # row.exerciseId
    THEN Threw(db, FkViolation)
  ELSE Returned([db EXCEPT !.workoutExercises = @ \cup {row}], {row})

\* db.delete(workoutExercises): the sets of the row go with it
deleteWorkoutExercise(db, id) ==
  Returned([db EXCEPT !.workoutExercises = {we \in @ : we.id # id},
                      !.sets = {s \in @ : s.workoutExerciseId # id}], {})

\* a delete on workouts, which no function of the program issues: the schema
\* makes it take the workout-exercises of the workout, and their sets
deleteWorkout(db, id) ==
  LET gone == {we.id : we \in {x \in db.workoutExercises : x.workoutId = id}}
  IN  Returned([db EXCEPT !.workouts = {w \in @ : w.id # id},
                          !.workoutExercises = {we \in @ : we.workoutId # id},
                          !.sets = {s \in @ : s.workoutExerciseId \notin gone}],
               {})

\* a delete on exercises, which no function of the program issues: the schema
\* restricts it while a workout-exercise references the exercise
deleteExercise(db, id) ==
  IF \E we \in db.workoutExercises : we.exerciseId = id
    THEN Threw(db, FkViolation)
  ELSE Returned([db EXCEPT !.exercises = {e \in @ : e.id # id}], {})

\* a call of p under way
Running(p) == inFlight[p].pc \in {"checked", "read"}

\* a call that ended keeps its name and how it ended, until p calls again
Finished(op, threw, message) ==
  [Idle EXCEPT !.op = op, !.pc = IF threw THEN "threw" ELSE "returned",
               !.error = message]

Started(op, u, target, exerciseId, passed, message) ==
  IF passed
    THEN [op |-> op, pc |-> "checked", userId |-> u, target |-> target,
          exerciseId |-> exerciseId, read |-> 0, error |-> ""]
  ELSE Finished(op, TRUE, message)

Ended(p, r) ==
  [inFlight EXCEPT ![p] = Finished(inFlight[p].op, r.threw, r.error)]

StoreBecomes(db) ==
  /\ workouts' = db.workouts
  /\ exercises' = db.exercises
  /\ workoutExercises' = db.workoutExercises
  /\ sets' = db.sets

StoreUnchanged ==
  UNCHANGED <<workouts, exercises, workoutExercises, sets, nextId, now,
              inserted, everSet>>

\* addSetToWorkoutExercise, first await: the ownership check
AddSetCheck(p) ==
  /\ ~Running(p)
  /\ nextId.sets + Cardinality({q \in Procs :
        Running(q) /\ inFlight[q].op = "addSetToWorkoutExercise"}) <= MaxSets
  /\ \E u \in Users, id \in 1 .. nextId.workoutExercises :
       inFlight' = [inFlight EXCEPT ![p] =
         Started("addSetToWorkoutExercise", u, id, 0,
                 \E we \in workoutExercises :
                   we.id = id /\ OwnerOfWorkoutExercise(Db, we) = {u},
                 "Workout exercise not found or unauthorized")]
  /\ StoreUnchanged /\ UNCHANGED dateVars

\* second await: the highest set number of the workout-exercise
AddSetReadMax(p) ==
  /\ inFlight[p].op = "addSetToWorkoutExercise" /\ inFlight[p].pc = "checked"
  /\ LET existingSets ==
           OrderByDesc({s \in sets : s.workoutExerciseId = inFlight[p].target},
                       "setNumber")
     IN  inFlight' = [inFlight EXCEPT
                        ![p].pc = "read",
                        ![p].read = IF existingSets = <<>> THEN 0
                                    ELSE existingSets[1].setNumber]
  /\ StoreUnchanged /\ UNCHANGED dateVars

\* third await: the insert
AddSetInsert(p) ==
  /\ inFlight[p].op = "addSetToWorkoutExercise" /\ inFlight[p].pc = "read"
  /\ LET row == [id |-> nextId.sets,
                 workoutExerciseId |-> inFlight[p].target,
                 setNumber |-> inFlight[p].read + 1,
                 reps |-> {5}, weight |-> {}]
         r == insertSet(Db, row)
     IN  /\ StoreBecomes(r.db)
         /\ inFlight' = Ended(p, r)
         /\ nextId' = IF r.threw THEN nextId
                      ELSE [nextId EXCEPT !.sets = @ + 1]
         /\ inserted' = IF r.threw THEN inserted ELSE inserted + 1
         /\ everSet' = everSet \cup
              {[id |-> s.id, workoutExerciseId |-> s.workoutExerciseId,
                setNumber |-> s.setNumber] : s \in r.value}
  /\ UNCHANGED <<now, dateVars>>

\* removeExerciseFromWorkout, first await: the ownership check
RemoveExerciseCheck(p) ==
  /\ ~Running(p)
  /\ \E u \in Users, id \in 1 .. nextId.workoutExercises :
       inFlight' = [inFlight EXCEPT ![p] =
         Started("removeExerciseFromWorkout", u, id, 0,
                 \E we \in workoutExercises :
                   we.id = id /\ OwnerOfWorkoutExercise(Db, we) = {u},
                 "Workout exercise not found or unauthorized")]
  /\ StoreUnchanged /\ UNCHANGED dateVars

\* second await: the delete
RemoveExerciseDelete(p) ==
  /\ inFlight[p].op = "removeExerciseFromWorkout" /\ inFlight[p].pc = "checked"
  /\ LET r == deleteWorkoutExercise(Db, inFlight[p].target)
     IN  /\ StoreBecomes(r.db)
         /\ inFlight' = Ended(p, r)
  /\ UNCHANGED <<nextId, now, inserted, everSet, dateVars>>

\* addExerciseToWorkout, first await: the workout of the caller
AddExerciseCheck(p) ==
  /\ ~Running(p)
  /\ nextId.workoutExercises + Cardinality({q \in Procs :
        Running(q) /\ inFlight[q].op = "addExerciseToWorkout"})
       <= MaxWorkoutExercises
  /\ \E u \in Users, id \in 1 .. nextId.workouts,
        e \in 1 .. nextId.exercises :
       inFlight' = [inFlight EXCEPT ![p] =
         Started("addExerciseToWorkout", u, id, e,
                 \E w \in workouts : w.id = id /\ w.userId = u,
                 "Workout not found or unauthorized")]
  /\ StoreUnchanged /\ UNCHANGED dateVars

\* second await: the highest order of the workout
AddExerciseReadMax(p) ==
  /\ inFlight[p].op = "addExerciseToWorkout" /\ inFlight[p].pc = "checked"
  /\ LET existingExercises ==
           OrderByDesc({we \in workoutExercises :
                          we.workoutId = inFlight[p].target}, "order")
     IN  inFlight' = [inFlight EXCEPT
                        ![p].pc = "read",
                        ![p].read = IF existingExercises = <<>> THEN 0 - 1
                                    ELSE existingExercises[1].order]
  /\ StoreUnchanged /\ UNCHANGED dateVars

\* third await: the insert
AddExerciseInsert(p) ==
  /\ inFlight[p].op = "addExerciseToWorkout" /\ inFlight[p].pc = "read"
  /\ LET row == [id |-> nextId.workoutExercises,
                 workoutId |-> inFlight[p].target,
                 exerciseId |-> inFlight[p].exerciseId,
                 order |-> inFlight[p].read + 1]
         r == insertWorkoutExercise(Db, row)
     IN  /\ StoreBecomes(r.db)
         /\ inFlight' = Ended(p, r)
         /\ nextId' = IF r.threw THEN nextId
                      ELSE [nextId EXCEPT !.workoutExercises = @ + 1]
         /\ inserted' = IF r.threw THEN inserted ELSE inserted + 1
  /\ UNCHANGED <<now, everSet, dateVars>>

NextInterleaved ==
  \E p \in Procs :
    \/ AddSetCheck(p)
    \/ AddSetReadMax(p)
    \/ AddSetInsert(p)
    \/ RemoveExerciseCheck(p)
    \/ RemoveExerciseDelete(p)
    \/ AddExerciseCheck(p)
    \/ AddExerciseReadMax(p)
    \/ AddExerciseInsert(p)

\* the requests of two sessions on the seeded store, interleaved
SpecInterleaved == InitSets /\ [][NextInterleaved]_vars

SeedReached ==
  /\ Db = SeedDb
  /\ nextId = [workouts |-> 3, exercises |-> 2, workoutExercises |-> 3,
               sets |-> 1]
  /\ now = 3
  /\ everSet = {}

\* ================================================================ claims
\* what the claims quantify over
Uuids(t) == 1 .. nextId[t]
ValidNames == {n \in NameInputs : Len(n) >= 1 /\ Len(n) <= 100}
ValidDates == StartedAtInputs \ {InvalidDate}
ValidReps == {r \in RepsInputs : RepsIssues(r) = <<>>}
ValidWeights == {w \in WeightInputs : WeightIssues(w) = <<>>}

\* the ownership chain Set -> WorkoutExercise -> Workout -> owner, read off
\* the tables
OwnsWorkout(u, id) == \E w \in workouts : w.id = id /\ w.userId = u
OwnsWorkoutExercise(u, id) ==
  \E we \in workoutExercises : we.id = id /\ OwnsWorkout(u, we.workoutId)
OwnsSet(u, id) ==
  \E s \in sets : s.id = id /\ OwnsWorkoutExercise(u, s.workoutExerciseId)

\* ---------------------------------------------------------------------- C1
\* every workout one of the three reads returns to user u
ReadBy(u) ==
  Range(getUserWorkouts(Db, u).value)
  \cup UNION {Range(getUserWorkoutsByDate(Db, u, d).value) : d \in DateInputs}
  \cup UNION {getUserWorkoutById(Db, u, id).value : id \in Uuids("workouts")}

\* C1: read isolation.  In every reachable state, for every acting user u,
\* getUserWorkoutById of a workout of another user returns undefined (not
\* found), and no workout that getUserWorkouts, getUserWorkoutsByDate or
\* getUserWorkoutById returns to u, no workout-exercise nested in it and no
\* set nested in those belongs to another user.
C1_ReadIsolation ==
  \A u \in Users :
    /\ \A w \in workouts :
         w.userId # u =>
           /\ getUserWorkoutById(Db, u, w.id) = Returned(Db, {})
           /\ EditWorkoutPage(Db, u, [workoutId |-> w.id]).response
                = Thrown(NotFound)
    /\ \A rw \in ReadBy(u) :
         /\ rw.userId = u
         /\ OwnsWorkout(u, rw.id)
         /\ \A x \in Range(rw.workoutExercises) :
              /\ OwnsWorkoutExercise(u, x.id)
              /\ \A t \in Range(x.sets) : OwnsSet(u, t.id)

\* a workout of u1 with an exercise and a set in it, beside a workout of u2
C1_Witness ==
  /\ \E s \in sets : OwnsSet("u1", s.id)
  /\ \E w \in workouts : w.userId = "u2"
  /\ ReadBy("u2") # {}

\* ---------------------------------------------------------------------- C2
WorkoutData == [name : {{}} \cup {{n} : n \in ValidNames},
                startedAt : {{}} \cup {{d} : d \in ValidDates}]
SetData == [reps : ValidReps, weight : ValidWeights]

\* C2: write isolation.  Each of the six mutating data-access operations,
\* called with a user id that the ownership chain of its target does not
\* resolve to (the target is another user's, or does not exist), leaves the
\* workouts, workout_exercises and sets tables (and the exercises) unchanged.
C2_WriteIsolation ==
  \A u \in Users :
    /\ \A id \in Uuids("workouts") :
         ~OwnsWorkout(u, id) =>
           /\ \A data \in WorkoutData :
                updateWorkoutForUser(Db, u, id, data).db = Db
           /\ \A e \in Uuids("exercises") :
                addExerciseToWorkout(Db, u, id, e, nextId.workoutExercises).db
                  = Db
    /\ \A id \in Uuids("workoutExercises") :
         ~OwnsWorkoutExercise(u, id) =>
           /\ removeExerciseFromWorkout(Db, u, id).db = Db
           /\ \A data \in SetData :
                addSetToWorkoutExercise(Db, u, id, data, nextId.sets).db = Db
    /\ \A id \in Uuids("sets") :
         ~OwnsSet(u, id) =>
           /\ \A data \in SetData : updateSet(Db, u, id, data).db = Db
           /\ deleteSet(Db, u, id).db = Db

\* u2 names the set, the workout-exercise and the workout of u1
C2_Witness ==
  \E s \in sets :
    /\ OwnsSet("u1", s.id)
    /\ ~OwnsSet("u2", s.id)
    /\ deleteSet(Db, "u1", s.id).db # Db
    /\ deleteSet(Db, "u2", s.id).db = Db

\* ---------------------------------------------------------------------- C3
NotFoundOrUnauthorized ==
  {"Workout not found or unauthorized",
   "Workout exercise not found or unauthorized",
   "Set not found or unauthorized"}

\* the data-access call threw one 'not found or unauthorized' error and the
\* action returned it as {success: false, error}
Refused(r, h) ==
  /\ r.threw
  /\ r.error \in NotFoundOrUnauthorized
  /\ h.response = Failure(r.error)
  /\ h.db = Db

\* C3: when the ownership chain of the target does not resolve to the acting
\* user, addExerciseToWorkout, removeExerciseFromWorkout,
\* addSetToWorkoutExercise, updateSet and deleteSet throw a 'not found or
\* unauthorized' error, and the server action that called them returns
\* {success: false, error: that message} and does not throw.
C3_RefusalIsAResult ==
  \A u \in Users :
    /\ \A id \in Uuids("workouts"), e \in Uuids("exercises") :
         ~OwnsWorkout(u, id) =>
           Refused(addExerciseToWorkout(Db, u, id, e, nextId.workoutExercises),
                   addExerciseToWorkoutAction(Db, u,
                     [workoutId |-> id, exerciseId |-> e],
                     nextId.workoutExercises))
    /\ \A id \in Uuids("workoutExercises") :
         ~OwnsWorkoutExercise(u, id) =>
           /\ Refused(removeExerciseFromWorkout(Db, u, id),
                      removeExerciseAction(Db, u, [workoutExerciseId |-> id]))
           /\ \A data \in SetData :
                Refused(addSetToWorkoutExercise(Db, u, id, data, nextId.sets),
                        addSetAction(Db, u,
                          [workoutExerciseId |-> id, reps |-> data.reps,
                           weight |-> data.weight], nextId.sets))
    /\ \A id \in Uuids("sets") :
         ~OwnsSet(u, id) =>
           /\ \A data \in SetData :
                Refused(updateSet(Db, u, id, data),
                        updateSetAction(Db, u,
                          [setId |-> id, reps |-> data.reps,
                           weight |-> data.weight]))
           /\ Refused(deleteSet(Db, u, id),
                      deleteSetAction(Db, u, [setId |-> id]))

\* u2 is refused the set of u1, which u1 is not
C3_Witness ==
  \E s \in sets :
    /\ OwnsSet("u1", s.id)
    /\ deleteSetAction(Db, "u2", [setId |-> s.id]).response
         = Failure("Set not found or unauthorized")
    /\ deleteSetAction(Db, "u1", [setId |-> s.id]).response = Success({})

\* ---------------------------------------------------------------------- C4
\* C4: updateWorkout, called with valid input by an authenticated user for a
\* workout id that does not exist or is another user's (updateWorkoutForUser
\* updates no row and returns undefined), does not return
\* {success: true, redirectUrl}.
C4_NoRowIsNotSuccess ==
  \A u \in Users, id \in Uuids("workouts"), name \in ValidNames,
     startedAt \in ValidDates :
    LET input == [workoutId |-> id, name |-> name, startedAt |-> startedAt]
        h == updateWorkout(Db, u, input)
    IN  (~OwnsWorkout(u, id)
         /\ updateWorkoutForUser(Db, u, id, [name |-> {name},
                                             startedAt |-> {startedAt}]).value
              = {})
        => ~h.response.success

\* ---------------------------------------------------------------------- C5
\* the store without the rows that belong to users other than u (the shared
\* exercises stay)
Without(db, u) ==
  LET mine == {w \in db.workouts : w.userId = u}
      myExercises == {we \in db.workoutExercises :
                        \E w \in mine : w.id = we.workoutId}
  IN  [workouts |-> mine,
       exercises |-> db.exercises,
       workoutExercises |-> myExercises,
       sets |-> {s \in db.sets :
                   \E we \in myExercises : we.id = s.workoutExerciseId}]

\* what the caller of a data-access function, and of a handler, gets to see
Seen(r) == [threw |-> r.threw, error |-> r.error, value |-> r.value]
Shown(h) == [response |-> h.response, revalidated |-> h.revalidated]

\* C5: no existence leakage.  For a user u and a target id that is not u's,
\* every data-access operation and every server action (and page) gives u the
\* same outcome in the reachable store, where the target may exist as another
\* user's row, and in the store without the other users' rows, where it does
\* not exist.
C5_NoExistenceLeak ==
  \A u \in Users :
    LET low == Without(Db, u)
    IN  /\ Seen(getUserWorkouts(Db, u)) = Seen(getUserWorkouts(low, u))
        /\ \A d \in DateInputs :
             Seen(getUserWorkoutsByDate(Db, u, d))
               = Seen(getUserWorkoutsByDate(low, u, d))
        /\ \A id \in Uuids("workouts") :
             ~OwnsWorkout(u, id) =>
               /\ Seen(getUserWorkoutById(Db, u, id))
                    = Seen(getUserWorkoutById(low, u, id))
               /\ Shown(EditWorkoutPage(Db, u, [workoutId |-> id]))
                    = Shown(EditWorkoutPage(low, u, [workoutId |-> id]))
               /\ \A data \in WorkoutData :
                    Seen(updateWorkoutForUser(Db, u, id, data))
                      = Seen(updateWorkoutForUser(low, u, id, data))
               /\ \A name \in ValidNames, startedAt \in ValidDates :
                    LET input == [workoutId |-> id, name |-> name,
                                  startedAt |-> startedAt]
                    IN  Shown(updateWorkout(Db, u, input))
                          = Shown(updateWorkout(low, u, input))
               /\ \A e \in Uuids("exercises") :
                    LET input == [workoutId |-> id, exerciseId |-> e]
                        new == nextId.workoutExercises
                    IN  /\ Seen(addExerciseToWorkout(Db, u, id, e, new))
                             = Seen(addExerciseToWorkout(low, u, id, e, new))
                        /\ Shown(addExerciseToWorkoutAction(Db, u, input, new))
                             = Shown(addExerciseToWorkoutAction(low, u, input,
                                                                new))
        /\ \A id \in Uuids("workoutExercises") :
             ~OwnsWorkoutExercise(u, id) =>
               /\ Seen(removeExerciseFromWorkout(Db, u, id))
                    = Seen(removeExerciseFromWorkout(low, u, id))
               /\ Shown(removeExerciseAction(Db, u, [workoutExerciseId |-> id]))
                    = Shown(removeExerciseAction(low, u,
                                                 [workoutExerciseId |-> id]))
               /\ \A data \in SetData :
                    LET input == [workoutExerciseId |-> id,
                                  reps |-> data.reps, weight |-> data.weight]
                    IN  /\ Seen(addSetToWorkoutExercise(Db, u, id, data,
                                                        nextId.sets))
                             = Seen(addSetToWorkoutExercise(low, u, id, data,
                                                            nextId.sets))
                        /\ Shown(addSetAction(Db, u, input, nextId.sets))
                             = Shown(addSetAction(low, u, input, nextId.sets))
        /\ \A id \in Uuids("sets") :
             ~OwnsSet(u, id) =>
               /\ Seen(deleteSet(Db, u, id)) = Seen(deleteSet(low, u, id))
               /\ Shown(deleteSetAction(Db, u, [setId |-> id]))
                    = Shown(deleteSetAction(low, u, [setId |-> id]))
               /\ \A data \in SetData :
                    LET input == [setId |-> id, reps |-> data.reps,
                                  weight |-> data.weight]
                    IN  /\ Seen(updateSet(Db, u, id, data))
                             = Seen(updateSet(low, u, id, data))
                        /\ Shown(updateSetAction(Db, u, input))
                             = Shown(updateSetAction(low, u, input))

\* u2 names a workout, a workout-exercise and a set that exist and are u1's
C5_Witness ==
  /\ Without(Db, "u2") # Db
  /\ \E s \in sets :
       /\ OwnsSet("u1", s.id)
       /\ \A t \in Without(Db, "u2").sets : t.id # s.id
       /\ Seen(deleteSet(Db, "u2", s.id)).threw

\* ---------------------------------------------------------------------- C6
Max(S) == CHOOSE x \in S : \A y \in S : y <= x

\* the sets a step inserts
NewSets == {s \in sets' : \A t \in sets : t.id # s.id}

\* C6 as claimed: set numbers are never reused.  The number a step gives a
\* new set differs from every number ever given on that workout-exercise,
\* the numbers of deleted sets included.
C6_NeverReused ==
  [][\A s \in NewSets :
       \A e \in everSet :
         e.workoutExerciseId = s.workoutExerciseId
           => e.setNumber # s.setNumber]_vars

\* C6 as amended: the number a step gives a new set is one more than the
\* highest number among the sets its workout-exercise holds before the step
\* (1 when it holds none); so it differs from the number of every set still
\* there, and every earlier set that had this number or a higher one is
\* deleted.
C6_OneAboveTheSetsLeft ==
  [][\A s \in NewSets :
       LET left == {t \in sets : t.workoutExerciseId = s.workoutExerciseId}
       IN  /\ s.setNumber = IF left = {} THEN 1
                            ELSE Max({t.setNumber : t \in left}) + 1
           /\ \A t \in left : t.setNumber < s.setNumber
           /\ \A e \in everSet :
                (e.workoutExerciseId = s.workoutExerciseId
                 /\ e.setNumber >= s.setNumber)
                  => \A t \in sets : t.id # e.id]_vars

\* a set that got the number of a set deleted before it was added
C6_Witness ==
  \E e \in everSet, s \in sets :
    /\ e.id # s.id
    /\ e.workoutExerciseId = s.workoutExerciseId
    /\ e.setNumber = s.setNumber
    /\ \A t \in sets : t.id # e.id

\* ---------------------------------------------------------------------- C7
SetsOf(id) == {s \in sets : s.workoutExerciseId = id}

\* no set of the workout-exercise was ever deleted
NothingDeleted(id) ==
  \A e \in everSet :
    e.workoutExerciseId = id => \E s \in sets : s.id = e.id

\* C7: on a workout-exercise that started without sets and had none deleted,
\* the sets added by its owner carry the numbers 1, 2, ..., N in the order
\* of the calls (uuids are numbered in the order the calls generated them);
\* the first set has number 1.
C7_NumbersFromOne ==
  \A we \in workoutExercises :
    NothingDeleted(we.id) =>
      \A s \in SetsOf(we.id) :
        s.setNumber = Cardinality({t \in SetsOf(we.id) : t.id <= s.id})

\* three sets added to one workout-exercise, none deleted
C7_Witness ==
  \E we \in workoutExercises :
    /\ NothingDeleted(we.id)
    /\ {s.setNumber : s \in SetsOf(we.id)} = {1, 2, 3}

\* ---------------------------------------------------------------------- C9
\* C9: updateSet (and updateSetAction) by the owner with only reps given
\* changes the reps of that set and nothing else, with only weight given
\* changes its weight and nothing else: the other field, the set number, the
\* workout-exercise reference, the other sets and the other tables stay.
C9_PartialUpdate ==
  \A u \in Users, s \in sets :
    OwnsSet(u, s.id) =>
      /\ \A reps \in ValidReps \ {{}} :
           LET after == [Db EXCEPT !.sets =
                           (@ \ {s}) \cup {[s EXCEPT !.reps = reps]}]
           IN  /\ updateSet(Db, u, s.id, [reps |-> reps, weight |-> {}]).db
                    = after
               /\ updateSetAction(Db, u, [setId |-> s.id, reps |-> reps,
                                          weight |-> {}]).db = after
      /\ \A weight \in ValidWeights \ {{}} :
           LET after == [Db EXCEPT !.sets =
                           (@ \ {s}) \cup
                           {[s EXCEPT !.weight = {ToNumeric(Elem(weight))}]}]
           IN  /\ updateSet(Db, u, s.id, [reps |-> {}, weight |-> weight]).db
                    = after
               /\ updateSetAction(Db, u, [setId |-> s.id, reps |-> {},
                                          weight |-> weight]).db = after

\* a set with a weight and no reps that a reps-only update changes, and a set
\* with reps and no weight that a weight-only update changes
C9_Witness ==
  /\ \E u \in Users, s \in sets :
       /\ OwnsSet(u, s.id) /\ s.weight # {} /\ s.reps = {}
       /\ updateSet(Db, u, s.id, [reps |-> {5}, weight |-> {}]).db # Db
  /\ \E u \in Users, s \in sets :
       /\ OwnsSet(u, s.id) /\ s.reps # {} /\ s.weight = {}
       /\ updateSet(Db, u, s.id, [reps |-> {}, weight |-> {2500}]).db # Db

\* ---------------------------------------------------------------------- C8
RowsOf(workoutId) == {we \in workoutExercises : we.workoutId = workoutId}

\* C8: addExerciseToWorkout gives the new row the highest order of the
\* workout's rows plus one, or 0 when the workout has none, and
\* removeExerciseFromWorkout takes one row away and leaves the others as they
\* are; so the rows of a workout have orders that increase strictly in the
\* sequence of their insertion (uuids are numbered in that sequence), and
\* getUserWorkoutById lists them in that sequence.
C8_OrderFollowsInsertion ==
  /\ \A w \in workouts, e \in exercises :
       LET r == addExerciseToWorkout(Db, w.userId, w.id, e.id,
                                     nextId.workoutExercises)
           orders == {we.order : we \in RowsOf(w.id)}
       IN  /\ ~r.threw
           /\ Elem(r.value).order = IF orders = {} THEN 0
                                    ELSE Max(orders) + 1
           /\ r.db = [Db EXCEPT !.workoutExercises = @ \cup r.value]
  /\ \A w \in workouts :
       \A we \in RowsOf(w.id) :
         LET r == removeExerciseFromWorkout(Db, w.userId, we.id)
         IN  /\ ~r.threw
             /\ r.db.workoutExercises = workoutExercises \ {we}
  /\ \A w \in workouts :
       \A a, b \in RowsOf(w.id) : a.id < b.id => a.order < b.order
  /\ \A w \in workouts :
       LET listed ==
             Elem(getUserWorkoutById(Db, w.userId, w.id).value).workoutExercises
       IN  /\ {listed[i].id : i \in DOMAIN listed}
                = {we.id : we \in RowsOf(w.id)}
           /\ \A i, j \in DOMAIN listed :
                i < j => /\ listed[i].id < listed[j].id
                         /\ listed[i].order < listed[j].order

\* a workout whose first row was removed: the orders left are 1 and 2
C8_Witness ==
  \E w \in workouts : {we.order : we \in RowsOf(w.id)} = {1, 2}

\* --------------------------------------------------------------------- C10
\* C10: for every user, valid name and valid start timestamp,
\* createWorkoutForUser followed by getUserWorkoutById of the returned id by
\* the same user returns a workout with that name and start timestamp, owned
\* by that user, with a generated id that is a uuid and differs from the id
\* of every other workout, and with no workout-exercises.
C10_CreateReadRoundTrip ==
  \A u \in Users, name \in ValidNames, startedAt \in ValidDates :
    LET c == createWorkoutForUser(Db, u,
                                  [name |-> name, startedAt |-> startedAt],
                                  nextId.workouts, now)
        g == getUserWorkoutById(c.db, u, Elem(c.value).id)
    IN  /\ ~c.threw /\ ~g.threw
        /\ g.value # {}
        /\ Elem(g.value).id = Elem(c.value).id
        /\ Elem(g.value).name = name
        /\ Elem(g.value).startedAt = startedAt
        /\ Elem(g.value).userId = u
        /\ Elem(g.value).id # 0
        /\ \A w \in workouts : w.id # Elem(g.value).id
        /\ Elem(g.value).workoutExercises = <<>>

\* a workout created after another workout got an exercise, read back by its
\* owner
C10_Witness ==
  \E w, v \in workouts :
    /\ w.id > v.id
    /\ RowsOf(v.id) # {}
    /\ getUserWorkoutById(Db, w.userId, w.id).value # {}

\* --------------------------------------------------------------------- C11
\* C11: formatLocalDate(parseLocalDate(s)) is s for every valid calendar
\* date string s of the form YYYY-MM-DD with a year from 0000 to 9999.
C11_DateRoundTrip ==
  formatted # {} => Elem(formatted) = dateString

\* the same for the years that have four digits without padding, 1000 to 9999
C11_RoundTripFromYear1000 ==
  (formatted # {} /\ Number(SubSeq(dateString, 1, 4)) >= 1000)
    => Elem(formatted) = dateString

\* ---------------------------------------------------- the server actions,
\* each tried by every session with every input of the bounded sets
RepsCases == RepsInputs \cup {{0 - 1}}
WeightCases == WeightInputs \cup {{0 - 1}}

\* what the claims call a violation of the schema, field by field
BadName(name) == Len(name) = 0 \/ Len(name) > 100
BadDate(startedAt) == startedAt = InvalidDate
BadId(id) == id = 0
BadReps(reps) == reps # {} /\ (Elem(reps) < 0 \/ Elem(reps) > 999)
BadWeight(weight) ==
  weight # {} /\ (Elem(weight) < 0 \/ Elem(weight) > 9999990)

\* the fields among the pairs <<field, bad>> that are bad
Offending(pairs) == {p[1] : p \in {q \in pairs : q[2]}}

\* one try: the action, the session, the offending fields of its input, the
\* issues its schema finds, and what the handler did
Attempt(action, u, offending, issues, h) ==
  [action |-> action, userId |-> u, offending |-> offending,
   issues |-> issues,
   threw |-> h.response.threw, success |-> h.response.success,
   error |-> h.response.error, fieldErrors |-> h.response.fieldErrors,
   called |-> {[fn |-> c.fn, userId |-> c.userId, threw |-> c.threw,
                error |-> c.error] : c \in h.call},
   db |-> h.db, revalidated |-> h.revalidated]

Attempts(u) ==
  {Attempt("createWorkout", u,
           Offending({<<"name", BadName(i.name)>>,
                      <<"startedAt", BadDate(i.startedAt)>>}),
           createWorkoutSchema(i),
           createWorkout(Db, u, i, nextId.workouts, now)) :
     i \in [name : NameInputs, startedAt : StartedAtInputs]}
  \cup
  {Attempt("updateWorkout", u,
           Offending({<<"workoutId", BadId(i.workoutId)>>,
                      <<"name", BadName(i.name)>>,
                      <<"startedAt", BadDate(i.startedAt)>>}),
           updateWorkoutSchema(i), updateWorkout(Db, u, i)) :
     i \in [workoutId : IdInputs("workouts"), name : NameInputs,
            startedAt : StartedAtInputs]}
  \cup
  {Attempt("addExerciseToWorkoutAction", u,
           Offending({<<"workoutId", BadId(i.workoutId)>>,
                      <<"exerciseId", BadId(i.exerciseId)>>}),
           addExerciseToWorkoutSchema(i),
           addExerciseToWorkoutAction(Db, u, i, nextId.workoutExercises)) :
     i \in [workoutId : IdInputs("workouts"),
            exerciseId : IdInputs("exercises")]}
  \cup
  {Attempt("removeExerciseAction", u,
           Offending({<<"workoutExerciseId", BadId(i.workoutExerciseId)>>}),
           removeExerciseSchema(i), removeExerciseAction(Db, u, i)) :
     i \in [workoutExerciseId : IdInputs("workoutExercises")]}
  \cup
  {Attempt("createExerciseAction", u,
           Offending({<<"name", BadName(i.name)>>}),
           createExerciseSchema(i),
           createExerciseAction(Db, u, i, nextId.exercises)) :
     i \in [name : NameInputs]}
  \cup
  {Attempt("addSetAction", u,
           Offending({<<"workoutExerciseId", BadId(i.workoutExerciseId)>>,
                      <<"reps", BadReps(i.reps)>>,
                      <<"weight", BadWeight(i.weight)>>}),
           addSetSchema(i), addSetAction(Db, u, i, nextId.sets)) :
     i \in [workoutExerciseId : IdInputs("workoutExercises"),
            reps : RepsCases, weight : WeightCases]}
  \cup
  {Attempt("updateSetAction", u,
           Offending({<<"setId", BadId(i.setId)>>,
                      <<"reps", BadReps(i.reps)>>,
                      <<"weight", BadWeight(i.weight)>>}),
           updateSetSchema(i), updateSetAction(Db, u, i)) :
     i \in [setId : IdInputs("sets"), reps : RepsCases,
            weight : WeightCases]}
  \cup
  {Attempt("deleteSetAction", u,
           Offending({<<"setId", BadId(i.setId)>>}),
           deleteSetSchema(i), deleteSetAction(Db, u, i)) :
     i \in [setId : IdInputs("sets")]}

\* --------------------------------------------------------------------- C12
\* C12: in every server action, input that violates the action's schema
\* (name empty or longer than 100 characters, an id that is no uuid, reps
\* outside 0..999, weight outside 0..9999.99, a start that is no date) gives
\* a failure result, without any data-access call and with the store as it
\* was; createWorkout with the name "" fails on the field name with the
\* message 'Workout name is required'.
C12_ValidationGate ==
  /\ \A u \in Sessions :
       \A a \in Attempts(u) :
         a.offending # {} =>
           /\ ~a.threw /\ ~a.success
           /\ a.called = {}
           /\ a.db = Db
  /\ \A u \in Sessions, startedAt \in StartedAtInputs :
       LET h == createWorkout(Db, u, [name |-> "", startedAt |-> startedAt],
                              nextId.workouts, now)
       IN  /\ h.response.fieldErrors # {}
           /\ "name" \in DOMAIN Elem(h.response.fieldErrors)
           /\ Elem(h.response.fieldErrors)["name"] = "Workout name is required"
           /\ h.db = Db

\* a set whose owner's update with reps 1000 is refused, while the same
\* update with reps 5 reaches the store
C12_Witness ==
  \E u \in Users, s \in sets :
    /\ OwnsSet(u, s.id)
    /\ s.reps # {5}
    /\ LET bad == updateSetAction(Db, u, [setId |-> s.id, reps |-> {1000},
                                          weight |-> {}])
           good == updateSetAction(Db, u, [setId |-> s.id, reps |-> {5},
                                           weight |-> {}])
       IN  /\ ~bad.response.success /\ bad.db = Db
           /\ good.response.success /\ good.db # Db

\* --------------------------------------------------------------------- C13
\* the message of the first issue the schema raised on a field
FirstMessage(issues, field) ==
  LET first == CHOOSE i \in DOMAIN issues :
                 /\ issues[i].path = field
                 /\ \A j \in DOMAIN issues : issues[j].path = field => i <= j
  IN  issues[first].message

\* a map from each of the fields to the first message on it
IsMapOfFirstMessages(a, fields) ==
  /\ a.fieldErrors # {}
  /\ DOMAIN Elem(a.fieldErrors) = fields
  /\ \A f \in fields : Elem(a.fieldErrors)[f] = FirstMessage(a.issues, f)

\* C13 as claimed: in all mutating actions alike, a validation failure is
\* reported as a map from each offending field to the message of the first
\* rule violated on it, with an entry for every field that failed.
C13_FieldErrorMap ==
  \A u \in Sessions :
    \A a \in Attempts(u) :
      a.offending # {} => IsMapOfFirstMessages(a, a.offending)

\* C13 as amended: createWorkout reports such a map, with an entry for every
\* offending field; updateWorkout reports the map for the fields name and
\* startedAt only, so an id that is no uuid has no entry and the map can be
\* empty; the six other actions report no map but one error string, the
\* message of the first issue of the schema, whatever other fields failed.
C13_MapOrFirstMessage ==
  \A u \in Sessions :
    \A a \in Attempts(u) :
      a.offending # {} =>
        /\ ~a.threw /\ ~a.success
        /\ a.action = "createWorkout" =>
             IsMapOfFirstMessages(a, a.offending) /\ a.error = ""
        /\ a.action = "updateWorkout" =>
             /\ IsMapOfFirstMessages(a, a.offending \cap {"name", "startedAt"})
             /\ a.error = ""
        /\ a.action \notin {"createWorkout", "updateWorkout"} =>
             /\ a.fieldErrors = {}
             /\ a.error = a.issues[1].message
             /\ a.issues[1].path \in a.offending

\* on a workout-exercise in the store, addSetAction with reps and weight
\* both out of range answers with the message on reps alone
C13_Witness ==
  /\ workoutExercises # {}
  /\ \E u \in Users :
       \E a \in Attempts(u) :
         /\ a.action = "addSetAction"
         /\ a.offending = {"reps", "weight"}
         /\ a.error = "Number must be less than or equal to 999"
         /\ a.fieldErrors = {}

\* --------------------------------------------------------------------- C14
PrimaryActions == {"createWorkout", "updateWorkout"}

\* a read without a user: it throws 'Unauthorized' and returns nothing
ThrewUnauthorized(r) ==
  r.threw /\ r.error = "Unauthorized" /\ r.value = {} /\ r.db = Db

\* C14: with no acting user and valid input, createWorkout and updateWorkout
\* throw 'Unauthorized', and so do getUserWorkouts, getUserWorkoutsByDate
\* and getUserWorkoutById; the six other actions return
\* {success: false, error: 'Unauthorized'}; none of them reaches the
\* data-access layer and the store stays as it was.
C14_MissingIdentity ==
  /\ \A a \in Attempts(NoUser) :
       a.offending = {} =>
         /\ a.error = "Unauthorized"
         /\ a.threw <=> a.action \in PrimaryActions
         /\ ~a.success
         /\ a.called = {}
         /\ a.db = Db
  /\ ThrewUnauthorized(getUserWorkouts(Db, NoUser))
  /\ \A d \in DateInputs :
       ThrewUnauthorized(getUserWorkoutsByDate(Db, NoUser, d))
  /\ \A id \in IdInputs("workouts") :
       ThrewUnauthorized(getUserWorkoutById(Db, NoUser, id))

\* a workout and a set in the store, which valid requests without a user
\* name: updateWorkout throws, deleteSetAction returns the failure
C14_Witness ==
  \E w \in workouts, s \in sets :
    /\ updateWorkout(Db, NoUser, [workoutId |-> w.id, name |-> "B",
                                  startedAt |-> Day1Noon]).response
         = Thrown("Unauthorized")
    /\ deleteSetAction(Db, NoUser, [setId |-> s.id]).response
         = Failure("Unauthorized")
    /\ getUserWorkoutById(Db, NoUser, w.id).threw

\* --------------------------------------------------------------------- C15
\* the failures the claim calls expected: the input is invalid, there is no
\* acting user, or the data-access layer refused the target as not found or
\* not the caller's
ExpectedFailure(a) ==
  \/ a.offending # {}
  \/ a.userId = NoUser
  \/ \E c \in a.called : c.threw /\ c.error \in NotFoundOrUnauthorized

C16_SuccessInvalidates ==
  \A u \in Sessions :
    \A a \in Attempts(u) :
      /\ a.success => a.revalidated # {}
      /\ ~a.success => a.revalidated = {}

\* --------------------------------------------------------------------- C17
\* C17: removeExerciseFromWorkout by the owner (and removeExerciseAction,
\* which calls it) deletes the workout-exercise row it names and the sets
\* that reference it, and nothing else: the other workout-exercises, their
\* sets, the workouts and the exercises, the exercise of the removed row
\* included, stay as they are.
C17_RemoveFrame ==
  \A we \in workoutExercises :
    LET u == Elem(OwnerOfWorkoutExercise(Db, we))
        after == [Db EXCEPT
                    !.workoutExercises = @ \ {we},
                    !.sets = {s \in @ : s.workoutExerciseId # we.id}]
        r == removeExerciseFromWorkout(Db, u, we.id)
        h == removeExerciseAction(Db, u, [workoutExerciseId |-> we.id])
    IN  /\ ~r.threw /\ r.db = after
        /\ h.response.success /\ h.db = after
        /\ \E e \in after.exercises : e.id = we.exerciseId

\* a workout with two workout-exercises, one of them with a set
C17_Witness ==
  \E a, b \in workoutExercises :
    /\ a.id # b.id /\ a.workoutId = b.workoutId
    /\ \E s \in sets : s.workoutExerciseId = a.id

\* --------------------------------------------------------------------- C18
ReferentialIntegrity(db) ==
  /\ \A s \in db.sets :
       \E we \in db.workoutExercises : we.id = s.workoutExerciseId
  /\ \A we \in db.workoutExercises :
       /\ \E w \in db.workouts : w.id = we.workoutId
       /\ \E e \in db.exercises : e.id = we.exerciseId

\* C18: in every state the interleaved requests reach, every set references
\* a workout-exercise of the store and every workout-exercise a workout and
\* an exercise of the store; a delete of a workout would take its
\* workout-exercises and their sets and leave the rest, a delete of an
\* exercise that a workout-exercise references would be rejected;
\* addExerciseToWorkout with the id of no exercise leaves no row.
C18_ReferentialIntegrity ==
  /\ ReferentialIntegrity(Db)
  /\ \A w \in workouts :
       LET r == deleteWorkout(Db, w.id)
       IN  /\ ReferentialIntegrity(r.db)
           /\ r.db.workouts = workouts \ {w}
           /\ r.db.workoutExercises =
                {we \in workoutExercises : we.workoutId # w.id}
           /\ r.db.sets =
                {s \in sets : \E we \in r.db.workoutExercises :
                                we.id = s.workoutExerciseId}
           /\ r.db.exercises = exercises
  /\ \A e \in exercises :
       (\E we \in workoutExercises : we.exerciseId = e.id)
         => deleteExercise(Db, e.id).threw /\ deleteExercise(Db, e.id).db = Db
  /\ \A w \in workouts :
       LET r == addExerciseToWorkout(Db, w.userId, w.id, nextId.exercises,
                                     nextId.workoutExercises)
       IN  r.threw /\ r.db = Db

\* the insert of an addSetToWorkoutExercise was rejected by the store: its
\* ownership check had passed and the workout-exercise was removed before
\* the insert
C18_Witness ==
  \E p \in Procs :
    /\ inFlight[p].op = "addSetToWorkoutExercise"
    /\ inFlight[p].pc = "threw"
    /\ inFlight[p].error = FkViolation

\* --------------------------------------------------------------------- C19
\* the workouts a step inserts
NewWorkouts == {w \in workouts' : \A v \in workouts : v.id # w.id}

\* C19: in every state a workout id names one workout, with one owner; a
\* step leaves every workout in the store under its id and its owner, and
\* the owner of a workout the step inserts is the user createWorkoutForUser
\* was called with; updateWorkoutForUser, by whomever and with whatever
\* data, changes neither the id nor the owner of a workout.
C19_OwnerImmutable ==
  /\ [](/\ \A w, v \in workouts : w.id = v.id => w = v
        /\ \A w \in workouts : w.userId \in Users
        /\ \A u \in Users, id \in IdInputs("workouts"), data \in WorkoutData :
             LET r == updateWorkoutForUser(Db, u, id, data)
             IN  {[id |-> w.id, userId |-> w.userId] : w \in r.db.workouts}
                   = {[id |-> w.id, userId |-> w.userId] : w \in workouts})
  /\ [][/\ \A w \in workouts :
             \E v \in workouts' : v.id = w.id /\ v.userId = w.userId
        /\ \A w \in NewWorkouts :
             createWorkoutForUser(Db, w.userId,
                                  [name |-> w.name, startedAt |-> w.startedAt],
                                  w.id, w.createdAt).value = {w}]_vars

\* a workout that its owner's update changes and another user's does not
C19_Witness ==
  \E w \in workouts, u \in Users :
    /\ u # w.userId
    /\ \E data \in WorkoutData :
         /\ updateWorkoutForUser(Db, w.userId, w.id, data).db # Db
         /\ updateWorkoutForUser(Db, u, w.id, data).db = Db

\* --------------------------------------------------------------------- C20
\* C20: createExercise (and createExerciseAction with a valid name) adds one
\* exercise row with a new id and the caller as creator, also when the
\* store has an exercise of that name; no step updates or deletes an
\* exercise; getAllExercises returns every exercise once, whoever created
\* it, by name ascending, before and after the creation.
C20_ExerciseLibrary ==
  /\ [](/\ \A u \in Users, name \in ValidNames :
             LET r == createExercise(Db, u, name, nextId.exercises)
                 h == createExerciseAction(Db, u, [name |-> name],
                                           nextId.exercises)
                 row == Elem(r.value)
             IN  /\ ~r.threw
                 /\ row.name = name /\ row.createdBy = {u}
                 /\ \A e \in exercises : e.id # row.id
                 /\ r.db = [Db EXCEPT !.exercises = @ \cup {row}]
                 /\ Cardinality(r.db.exercises) = Cardinality(exercises) + 1
                 /\ h.response.success /\ h.db = r.db
                 /\ getAllExercises(r.db) # {}
                 /\ \A result \in getAllExercises(r.db) :
                      /\ Range(result) = r.db.exercises
                      /\ Len(result) = Cardinality(r.db.exercises)
                      /\ \A i, j \in DOMAIN result :
                           i < j => NameRank(result[i].name)
                                      <= NameRank(result[j].name)
        /\ getAllExercises(Db) # {}
        /\ \A result \in getAllExercises(Db) : Range(result) = exercises)
  /\ [][exercises \subseteq exercises']_vars

\* an exercise in the store, and a second one of the same name by the other
\* user and one of another name would both be rows of their own
C20_Witness ==
  \E e \in exercises, u \in Users :
    /\ {u} # e.createdBy
    /\ Cardinality(createExercise(Db, u, e.name, nextId.exercises).db.exercises)
         = 2
    /\ \E name \in ValidNames :
         /\ name # e.name
         /\ Cardinality(getAllExercises(
              createExercise(Db, u, name, nextId.exercises).db)) = 1

\* --------------------------------------------------------------------- C21
\* start timestamps at the edges and in the middle of two days
Day0End == DayMs - 1
TimestampCases == {0, Day0Noon, Day0End, DayMs, Day1Noon}

\* the store after u created two more workouts, started at t1 and at t2
TwoMore(u, t1, t2) ==
  createWorkoutForUser(
    createWorkoutForUser(Db, u, [name |-> "A", startedAt |-> t1],
                         nextId.workouts, now).db,
    u, [name |-> "B", startedAt |-> t2], nextId.workouts + 1, now + 1).db

IsDescending(result, column) ==
  \A i, j \in DOMAIN result : i < j => result[i][column] >= result[j][column]

IsAscending(result, column) ==
  \A i, j \in DOMAIN result : i < j => result[i][column] <= result[j][column]

\* the workout-exercises of a returned workout are those of the store, by
\* order ascending, and the sets of each are those of the store, by set
\* number ascending
NestedInOrder(db, w) ==
  /\ IsAscending(w.workoutExercises, "order")
  /\ Len(w.workoutExercises)
       = Cardinality({we \in db.workoutExercises : we.workoutId = w.id})
  /\ {we.id : we \in Range(w.workoutExercises)}
       = {we.id : we \in {x \in db.workoutExercises : x.workoutId = w.id}}
  /\ \A we \in Range(w.workoutExercises) :
       /\ IsAscending(we.sets, "setNumber")
       /\ Len(we.sets)
            = Cardinality({s \in db.sets : s.workoutExerciseId = we.id})
       /\ Range(we.sets) = {s \in db.sets : s.workoutExerciseId = we.id}

\* C21: getUserWorkouts returns the workouts of the caller by creation time
\* descending, getUserWorkoutsByDate by start time descending; in every
\* workout the three reads return, the workout-exercises are by order
\* ascending and the sets of each by set number ascending; the reads leave
\* the store as it was.
C21_ReadOrdering ==
  \A u \in Users, t1 \in TimestampCases, t2 \in TimestampCases :
    LET db == TwoMore(u, t1, t2)
        all == getUserWorkouts(db, u)
    IN  /\ ~all.threw /\ all.db = db
        /\ IsDescending(all.value, "createdAt")
        /\ {w.id : w \in Range(all.value)}
             = {w.id : w \in {x \in db.workouts : x.userId = u}}
        /\ \A w \in Range(all.value) : NestedInOrder(db, w)
        /\ \A d \in TimestampCases :
             LET byDate == getUserWorkoutsByDate(db, u, d)
             IN  /\ ~byDate.threw /\ byDate.db = db
                 /\ IsDescending(byDate.value, "startedAt")
                 /\ \A w \in Range(byDate.value) : NestedInOrder(db, w)
        /\ \A id \in IdInputs("workouts") :
             LET byId == getUserWorkoutById(db, u, id)
             IN  /\ ~byId.threw /\ byId.db = db
                 /\ \A w \in byId.value : NestedInOrder(db, w)

\* a workout with two workout-exercises and a set, whose owner after two
\* more workouts on one day is listed three workouts, and two for that day
C21_Witness ==
  \E w \in workouts :
    /\ Len(Elem(getUserWorkoutById(Db, w.userId, w.id).value).workoutExercises)
         = 2
    /\ \E s \in sets, we \in workoutExercises :
         s.workoutExerciseId = we.id /\ we.workoutId = w.id
    /\ Len(getUserWorkouts(TwoMore(w.userId, DayMs, Day1Noon), w.userId).value)
         >= 3
    /\ Len(getUserWorkoutsByDate(TwoMore(w.userId, DayMs, Day1Noon), w.userId,
                                 Day1Noon).value) >= 2

\* --------------------------------------------------------------------- C22
\* the store after u created one more workout, started at t
OneMore(u, t) ==
  createWorkoutForUser(Db, u, [name |-> "A", startedAt |-> t],
                       nextId.workouts, now).db

\* C22: getUserWorkoutsByDate(d) returns exactly the workouts of the caller
\* whose start lies in the local calendar day of d, from 00:00:00.000 to
\* 23:59:59.999 with both ends included.
C22_WholeDay ==
  \A u \in Users, t \in TimestampCases, d \in TimestampCases :
    LET db == OneMore(u, t)
    IN  {w.id : w \in Range(getUserWorkoutsByDate(db, u, d).value)}
          = {w.id : w \in {x \in db.workouts :
                             /\ x.userId = u
                             /\ LocalDay(x.startedAt) = LocalDay(d)}}

\* what holds instead: the day without its last millisecond
C22_DayButItsLastMillisecond ==
  \A u \in Users, t \in TimestampCases, d \in TimestampCases :
    LET db == OneMore(u, t)
    IN  {w.id : w \in Range(getUserWorkoutsByDate(db, u, d).value)}
          = {w.id : w \in {x \in db.workouts :
                             /\ x.userId = u
                             /\ LocalDay(x.startedAt) = LocalDay(d)
                             /\ x.startedAt % DayMs # DayMs - 1}}

\* --------------------------------------------------------------------- C23
\* p is between its read of the highest set number and its insert
HasRead(p) ==
  inFlight[p].op = "addSetToWorkoutExercise" /\ inFlight[p].pc = "read"

\* the row the insert of p writes under the uuid id
RowToInsert(p, id) ==
  [id |-> id, workoutExerciseId |-> inFlight[p].target,
   setNumber |-> inFlight[p].read + 1, reps |-> {5}, weight |-> {}]

\* C23: when two addSetToWorkoutExercise calls on one workout-exercise have
\* both read the same highest set number before either inserted, both
\* inserts succeed, in either order, and the two new sets have the same set
\* number: nothing in the functions or the schema rejects the second.
C23_SetNumberRace ==
  \A p, q \in Procs :
    (/\ p # q /\ HasRead(p) /\ HasRead(q)
     /\ inFlight[p].target = inFlight[q].target
     /\ inFlight[p].read = inFlight[q].read
     /\ \E we \in workoutExercises : we.id = inFlight[p].target)
      => LET first == insertSet(Db, RowToInsert(p, nextId.sets))
             second == insertSet(first.db, RowToInsert(q, nextId.sets + 1))
         IN  /\ ~first.threw /\ ~second.threw
             /\ first.value \cup second.value \subseteq second.db.sets
             /\ Cardinality(first.value \cup second.value) = 2
             /\ Elem(first.value).setNumber = Elem(second.value).setNumber

\* both calls have returned and the store has two sets of one
\* workout-exercise with the same set number
C23_Witness ==
  /\ \A p \in Procs : /\ inFlight[p].op = "addSetToWorkoutExercise"
                      /\ inFlight[p].pc = "returned"
  /\ \E s, t \in sets :
       /\ s.id # t.id
       /\ s.workoutExerciseId = t.workoutExerciseId
       /\ s.setNumber = t.setNumber

\* --------------------------------------------------------------------- C24
\* /dashboard or a path under it
UnderDashboard(pathname) ==
  \/ pathname = <<"/", "dashboard">>
  \/ StartsWith(pathname, <<"/", "dashboard", "/">>)

\* the request went on to its route
ReachesRoute(r) == r.outcome \in {"next", "not invoked"}

\* C24: a request without a user to /dashboard or to a path under it never
\* reaches its route: auth.protect() sends it to sign-in; a request to /
\* passes without a user and is redirected to /dashboard with one; a request
\* to any other path outside /dashboard is never blocked.
C24_RouteProtection ==
  \A r \in routed :
    /\ (r.userId = NoUser /\ UnderDashboard(r.pathname))
         => r.outcome = "redirectToSignIn"
    /\ r.pathname = <<"/">>
         => r.outcome = IF r.userId = NoUser THEN "next"
                        ELSE "redirect /dashboard"
    /\ (~UnderDashboard(r.pathname) /\ r.pathname # <<"/">>)
         => ReachesRoute(r)

\* C24, what the handlers do guarantee: where config.matcher selects the
\* pathname, a request without a user to /dashboard or under it is sent to
\* sign-in, and the requests to / are handled as claimed; a request to a
\* path that neither begins with /dashboard nor is / always reaches its route.
C24_ProtectedWhereSelected ==
  \A r \in routed :
    /\ (r.userId = NoUser /\ UnderDashboard(r.pathname) /\ matcher(r.pathname))
         => r.outcome = "redirectToSignIn"
    /\ r.pathname = <<"/">>
         => r.outcome = IF r.userId = NoUser THEN "next"
                        ELSE "redirect /dashboard"
    /\ (~isProtectedRoute(r.pathname) /\ r.pathname # <<"/">>)
         => ReachesRoute(r)

\* a request without a user to a path under /dashboard went on to its route
C24_UnprotectedDashboardPath ==
  \E r \in routed :
    r.userId = NoUser /\ UnderDashboard(r.pathname) /\ ReachesRoute(r)

\* a request without a user to a path outside /dashboard was sent to sign-in
C24_BlockedOutsideDashboard ==
  \E r \in routed :
    ~UnderDashboard(r.pathname) /\ r.outcome = "redirectToSignIn"

\* --------------------------------------------------------------------- C25
\* the suffix the claim gives to a day of the month
ClaimedSuffix(day) ==
  IF day \in {1, 21, 31} THEN <<"s", "t">>
  ELSE IF day \in {2, 22} THEN <<"n", "d">>
  ELSE IF day \in {3, 23} THEN <<"r", "d">>
  ELSE <<"t", "h">>

\* C25: formatDate renders a date as the day of the month, its ordinal
\* suffix, a space, the abbreviated month, a space and the year in four
\* digits; the suffix is st for 1, 21 and 31, nd for 2 and 22, rd for 3 and
\* 23, and th for every other day, 11, 12 and 13 included.
C25_FormatDate ==
  \A d \in parsedDate, str \in display :
    LET parts == split(str, " ")
    IN  /\ Len(parts) = 3
        /\ parts[1] = String(d.date) \o ClaimedSuffix(d.date)
        /\ parts[2] = MonthAbbreviations[d.month + 1]
        /\ Len(parts[3]) = 4
        /\ Number(parts[3]) = d.year

\* the 11th, 12th or 13th of a month of a year below 1000 has been rendered
C25_Witness ==
  \E d \in parsedDate :
    /\ display # {}
    /\ d.date \in {11, 12, 13}
    /\ d.year < 1000

\* --------------------------------------------------------------------- C26
\* the errors of the store and of its query builder
StoreFaults == {FkViolation, NoValuesToSet}

\* the data-access call of the try ended in a fault of the store
Faulted(a) == \E c \in a.called : c.threw /\ c.error \in StoreFaults

\* C26: when the store rejects or cannot execute the operation, the action
\* has called the data-access function once and not again, it reports a
\* failure whose message is a generic one, not the store's own error text,
\* and the store is as it was.
C26_StoreFaults ==
  \A u \in Users :
    \A a \in Attempts(u) :
      Faulted(a)
        => /\ Cardinality(a.called) = 1
           /\ ~a.success /\ ~a.threw
           /\ a.error # "" /\ a.error \notin StoreFaults
           /\ a.db = Db

\* C26, what the actions do: one call, no success, no partial write, and
\* the message of the failure is the text of the store's error
C26_StoreTextSurfaced ==
  \A u \in Users :
    \A a \in Attempts(u) :
      Faulted(a)
        => /\ Cardinality(a.called) = 1
           /\ ~a.success /\ ~a.threw
           /\ a.error \in StoreFaults
           /\ a.db = Db

\* --------------------------------------------------------------------- C27
\* the validation failure of a try, which its issues alone decide: the two
\* workout actions return the map of the issues on name and startedAt, the
\* six others the message of the first issue
IsValidationFailure(a) ==
  /\ ~a.threw /\ ~a.success
  /\ IF a.action \in PrimaryActions
       THEN /\ a.error = ""
            /\ a.fieldErrors = {FieldErrorsOf(a.issues, {"name", "startedAt"})}
       ELSE /\ a.error = a.issues[1].message
            /\ a.fieldErrors = {}

\* C27: every server action validates before it resolves the identity: on
\* input that violates the schema the outcome is the validation failure,
\* the same with and without a user, and never 'Unauthorized'; the missing
\* identity is reported, and the data-access function called, only for
\* input that passed validation, and the call only with the user auth()
\* returned.
C27_ValidationFirst ==
  \A u \in Sessions :
    \A a \in Attempts(u) :
      /\ a.issues # <<>>
           => /\ IsValidationFailure(a)
              /\ a.error # "Unauthorized"
              /\ a.called = {}
      /\ a.error = "Unauthorized" => a.issues = <<>> /\ u = NoUser
      /\ a.called # {}
           => /\ a.issues = <<>> /\ u # NoUser
              /\ \A c \in a.called : c.userId = u

\* with a set in the store, a request without a user whose set id is no
\* uuid was refused for its input
C27_Witness ==
  /\ sets # {}
  /\ \E a \in Attempts(NoUser) :
       /\ a.action = "updateSetAction"
       /\ "setId" \in a.offending
       /\ a.error # "" /\ a.error # "Unauthorized"

\* --------------------------------------------------------------------- C28
\* weights in thousandths: 0, 0.01, 2.5, 2.505 and 9999.99
SuppliedWeights == { {}, {0}, {10}, {2500}, {2505}, {9999990} }
SuppliedReps == { {}, {0}, {5}, {999} }

\* the set addSetToWorkoutExercise inserts for the owner u
AddedSet(u, we, reps, weight) ==
  Elem(addSetToWorkoutExercise(Db, u, we.id,
                               [reps |-> reps, weight |-> weight],
                               nextId.sets).value)

\* C28: addSetToWorkoutExercise stores reps and weight as supplied: the
\* stored reps equals the supplied reps (0 included), the stored weight
\* equals the supplied weight (0 included), and a field is null if and only
\* if it was omitted.
C28_StoredAsSupplied ==
  \A u \in Users :
    \A we \in {x \in workoutExercises : OwnsWorkoutExercise(u, x.id)} :
      \A reps \in SuppliedReps, weight \in SuppliedWeights :
        LET s == AddedSet(u, we, reps, weight)
        IN  /\ s.reps = reps
            /\ (s.weight = {}) <=> (weight = {})
            /\ \A w \in weight : s.weight = {x \in {w \div 10} : x * 10 = w}

\* C28, what is stored: reps as supplied, and the weight as supplied when
\* it is not 0 and has at most two decimals; 0 is stored as null, and a
\* third decimal is rounded away
C28_StoredButZeroWeight ==
  \A u \in Users :
    \A we \in {x \in workoutExercises : OwnsWorkoutExercise(u, x.id)} :
      \A reps \in SuppliedReps, weight \in SuppliedWeights :
        LET s == AddedSet(u, we, reps, weight)
        IN  /\ s.reps = reps
            /\ weight = {0} => s.weight = {}
            /\ \A w \in weight :
                 w # 0 => s.weight = {ToNumeric(w)}

\* --------------------------------------------------------------------- C29
\* C29: with the requests served one at a time, in every reachable state no
\* two workout-exercises of one workout have the same order and no two sets
\* of one workout-exercise have the same set number.
C29_UniqueNumbers ==
  /\ \A a, b \in workoutExercises :
       (a.workoutId = b.workoutId /\ a.order = b.order) => a.id = b.id
  /\ \A s, t \in sets :
       (s.workoutExerciseId = t.workoutExerciseId /\ s.setNumber = t.setNumber)
         => s.id = t.id

\* a workout-exercise with two sets, added one after the other
C29_Witness ==
  \E s, t \in sets :
    /\ s.id # t.id
    /\ s.workoutExerciseId = t.workoutExerciseId
    /\ s.setNumber # t.setNumber

\* --------------------------------------------------------------------- C30
\* updateSetAction of the set id alone, as handleSave sends it for an empty
\* value
EmptySave(u, s) ==
  updateSetAction(Db, u, [setId |-> s.id, reps |-> {}, weight |-> {}])

\* C30: updateSetAction called by the owner of a set with the set id and
\* neither reps nor weight returns a result, it does not throw, and leaves
\* the reps and the weight of the set, and the store, as they were.
C30_EmptySave ==
  \A u \in Users :
    \A s \in {x \in sets : OwnsSet(u, x.id)} :
      LET h == EmptySave(u, s)
      IN  /\ ~h.response.threw
          /\ s \in h.db.sets
          /\ h.db = Db

\* a set with reps, of a workout-exercise that has another set, whose owner
\* saved an empty value and got the failure result
C30_Witness ==
  \E u \in Users :
    \E s \in {x \in sets : OwnsSet(u, x.id)} :
      /\ s.reps # {}
      /\ \E t \in sets : t.id # s.id /\ t.workoutExerciseId = s.workoutExerciseId
      /\ ~EmptySave(u, s).response.success
      /\ EmptySave(u, s).call # {}

====
